---- MODULE Spec2Model ----
(***************************************************************************)
(* A model of vs/editor/common/model/textModelSearch.ts: the search        *)
(* request compiler (SearchParams.parseSearchRequest), the stateful        *)
(* matcher (Searcher) and the search orchestrator (TextModelSearch).       *)
(*                                                                         *)
(* A string is a sequence of characters, a character a one-character       *)
(* string.  Offsets into strings are 0-based as in the source; positions   *)
(* in the buffer are 1-based (lineNumber, column).                         *)
(***************************************************************************)
EXTENDS Integers, Sequences, FiniteSets, TLC

\* ------------------------------------------------------------------------
\* Characters (vs/base/common/charCode)
\* ------------------------------------------------------------------------
LineFeed == "\n"
CarriageReturn == "\r"
Backslash == "\\"
Space == " "
Tab == "\t"

SetMin(S) == CHOOSE x \in S : \A y \in S : x <= y

\* String.prototype.substring(from, to) on 0-based offsets, arguments
\* clamped to the length of the string.
Substring(s, from, to) ==
    LET f == IF from > Len(s) THEN Len(s) ELSE from
        t == IF to > Len(s) THEN Len(s) ELSE to
    IN SubSeq(s, f + 1, t)

\* String.prototype.toLowerCase / toUpperCase, character by character.
toLowerCaseChar(c) ==
    CASE c = "A" -> "a"
      [] c = "B" -> "b"
      [] OTHER -> c

toUpperCaseChar(c) ==
    CASE c = "a" -> "A"
      [] c = "b" -> "B"
      [] OTHER -> c

toLowerCase(s) == [i \in 1..Len(s) |-> toLowerCaseChar(s[i])]
toUpperCase(s) == [i \in 1..Len(s) |-> toUpperCaseChar(s[i])]

\* ------------------------------------------------------------------------
\* Regular expressions.  The model covers the part of the regex language the
\* queries below use: literal characters, the escapes \n, \r and \X, the
\* anchor ^ and the postfix *.  A compiled regex is a sequence of items.
\* ------------------------------------------------------------------------
RegexMeta == {"\\", "{", "}", "*", "+", "?", "|", "^", "$", ".", "[", "]", "(", ")"}

\* strings.escapeRegExpCharacters: a backslash in front of every regex
\* metacharacter.
RECURSIVE escapeRegExpCharacters(_)
escapeRegExpCharacters(s) ==
    IF s = << >> THEN << >>
    ELSE (IF Head(s) \in RegexMeta THEN <<Backslash, Head(s)>> ELSE <<Head(s)>>)
            \o escapeRegExpCharacters(Tail(s))

LitItem(c) == [c |-> c, star |-> FALSE, bol |-> FALSE]
BolItem == [c |-> "^", star |-> FALSE, bol |-> TRUE]

\* new RegExp(source): the items of the source, or a syntax error.  An
\* unescaped parenthesis is an unterminated (or unmatched) group, a * with
\* nothing to repeat and a trailing backslash are syntax errors.
RECURSIVE ParseRegExp(_, _, _)
ParseRegExp(src, i, items) ==
    IF i > Len(src) THEN [ok |-> TRUE, items |-> items]
    ELSE LET c == src[i] IN
         IF c = Backslash THEN
             IF i + 1 > Len(src) THEN [ok |-> FALSE, items |-> << >>]
             ELSE LET e == src[i + 1]
                      lit == IF e = "n" THEN LineFeed
                             ELSE IF e = "r" THEN CarriageReturn
                             ELSE e
                  IN ParseRegExp(src, i + 2, Append(items, LitItem(lit)))
         ELSE IF c \in {"(", ")"} THEN [ok |-> FALSE, items |-> << >>]
         ELSE IF c = "^" THEN ParseRegExp(src, i + 1, Append(items, BolItem))
         ELSE IF c = "*" THEN
             IF items = << >> \/ items[Len(items)].bol \/ items[Len(items)].star
             THEN [ok |-> FALSE, items |-> << >>]
             ELSE ParseRegExp(src, i + 1,
                      [items EXCEPT ![Len(items)].star = TRUE])
         ELSE ParseRegExp(src, i + 1, Append(items, LitItem(c)))

\* The result of a failed construction (createRegExp throws).
NoRegExp == [ok |-> FALSE, items |-> << >>, ignoreCase |-> FALSE, multiline |-> FALSE]

\* strings.createRegExp(searchString, isRegex, {matchCase, wholeWord: false,
\* multiline, global: true}): throws on an empty string and on a syntax
\* error; a non-regex string is escaped first.
createRegExp(searchString, isRegex, matchCase, multiline) ==
    IF searchString = << >> THEN NoRegExp
    ELSE LET src == IF isRegex THEN searchString
                    ELSE escapeRegExpCharacters(searchString)
             p == ParseRegExp(src, 1, << >>)
         IN IF ~p.ok THEN NoRegExp
            ELSE [ok |-> TRUE, items |-> p.items,
                  ignoreCase |-> ~matchCase, multiline |-> multiline]

\* Two characters match under the regex's flags (the i flag compares the
\* canonicalized, upper-cased, characters).
CharEq(re, a, b) ==
    IF re.ignoreCase THEN toUpperCaseChar(a) = toUpperCaseChar(b) ELSE a = b

\* The length of the run of characters matching c in text from offset i.
RECURSIVE RunLen(_, _, _, _)
RunLen(re, c, text, i) ==
    IF i < Len(text) /\ CharEq(re, text[i + 1], c)
    THEN 1 + RunLen(re, c, text, i + 1)
    ELSE 0

\* The backtracking matcher: the end offset of the match of items k.. at
\* offset i of text, or -1.  A starred item is greedy.
RECURSIVE MatchHere(_, _, _, _)
RECURSIVE TryStar(_, _, _, _, _)
MatchHere(re, k, text, i) ==
    IF k > Len(re.items) THEN i
    ELSE LET it == re.items[k] IN
         IF it.bol THEN
             IF i = 0 \/ (re.multiline /\ text[i] = LineFeed)
             THEN MatchHere(re, k + 1, text, i)
             ELSE -1
         ELSE IF it.star THEN TryStar(re, k, text, i, RunLen(re, it.c, text, i))
         ELSE IF i < Len(text) /\ CharEq(re, text[i + 1], it.c)
              THEN MatchHere(re, k + 1, text, i + 1)
              ELSE -1

TryStar(re, k, text, i, n) ==
    LET e == MatchHere(re, k + 1, text, i + n)
    IN IF e # -1 THEN e
       ELSE IF n = 0 THEN -1
       ELSE TryStar(re, k, text, i, n - 1)

\* The leftmost offset at or after i where the regex matches, or -1.
RECURSIVE FirstMatchIndex(_, _, _)
FirstMatchIndex(re, text, i) ==
    IF i > Len(text) THEN -1
    ELSE IF MatchHere(re, 1, text, i) # -1 THEN i
    ELSE FirstMatchIndex(re, text, i + 1)

\* RegExp.prototype.exec of a global regex: the leftmost match starting at
\* or after lastIndex; lastIndex becomes the end of the match, or 0 when
\* there is none.  A zero-length match leaves lastIndex where the match is.
RegExpExec(re, text, lastIndex) ==
    LET i == FirstMatchIndex(re, text, lastIndex) IN
    IF i = -1 THEN [found |-> FALSE, index |-> 0, len |-> 0, lastIndex |-> 0]
    ELSE LET e == MatchHere(re, 1, text, i)
         IN [found |-> TRUE, index |-> i, len |-> e - i, lastIndex |-> e]

\* String.prototype.indexOf(searchString, fromIndex), -1 when absent.
indexOf(text, searchString, fromIndex) ==
    LET n == Len(searchString)
        cands == {i \in fromIndex..(Len(text) - n) :
                     SubSeq(text, i + 1, i + n) = searchString}
    IN IF cands = {} THEN -1 ELSE SetMin(cands)

\* ------------------------------------------------------------------------
\* Word classifier (vs/editor/common/controller/wordCharacterClassifier)
\* ------------------------------------------------------------------------
Regular == "Regular"
Whitespace == "Whitespace"
WordSeparator == "WordSeparator"

SeqRange(s) == {s[i] : i \in 1..Len(s)}

\* getMapForWordSeparators(wordSeparators).get(ch): the separators are
\* WordSeparator, space and tab are Whitespace, every other character is
\* Regular.
WordCharacterClass(wordSeparators, ch) ==
    IF ch \in {Space, Tab} THEN Whitespace
    ELSE IF ch \in SeqRange(wordSeparators) THEN WordSeparator
    ELSE Regular

\* ------------------------------------------------------------------------
\* Word-boundary test
\* ------------------------------------------------------------------------
\* leftIsWordBounday looking at the character before the match only.
leftIsWordBounday_CharBeforeOnly(wordSeparators, text, textLength, matchStartIndex, matchLength) ==
    IF matchStartIndex = 0 THEN TRUE
    ELSE WordCharacterClass(wordSeparators, text[matchStartIndex]) # Regular

leftIsWordBounday(wordSeparators, text, textLength, matchStartIndex, matchLength) ==
    IF matchStartIndex = 0 THEN TRUE
    ELSE IF WordCharacterClass(wordSeparators, text[matchStartIndex]) # Regular THEN TRUE
    ELSE IF matchLength > 0
            /\ WordCharacterClass(wordSeparators, text[matchStartIndex + 1]) # Regular
         THEN TRUE
    ELSE FALSE

rightIsWordBounday(wordSeparators, text, textLength, matchStartIndex, matchLength) ==
    IF matchStartIndex + matchLength = textLength THEN TRUE
    ELSE IF WordCharacterClass(wordSeparators, text[matchStartIndex + matchLength + 1]) # Regular
         THEN TRUE
    ELSE IF matchLength > 0
            /\ WordCharacterClass(wordSeparators, text[matchStartIndex + matchLength]) # Regular
         THEN TRUE
    ELSE FALSE

\* isValidMatch testing the left edge only.
isValidMatch_LeftOnly(wordSeparators, text, textLength, matchStartIndex, matchLength) ==
    leftIsWordBounday(wordSeparators, text, textLength, matchStartIndex, matchLength)

isValidMatch(wordSeparators, text, textLength, matchStartIndex, matchLength) ==
    /\ leftIsWordBounday(wordSeparators, text, textLength, matchStartIndex, matchLength)
    /\ rightIsWordBounday(wordSeparators, text, textLength, matchStartIndex, matchLength)

\* ------------------------------------------------------------------------
\* Search request compiler
\* ------------------------------------------------------------------------
\* _isMultilineRegexSource reading the character after a backslash again as
\* the start of the next step.
RECURSIVE isMultilineRegexSourceFrom_EscapeNotConsumed(_, _)
isMultilineRegexSourceFrom_EscapeNotConsumed(searchString, i) ==
    IF i > Len(searchString) THEN FALSE
    ELSE IF searchString[i] = Backslash THEN
             IF i + 1 > Len(searchString) THEN FALSE
             ELSE IF searchString[i + 1] \in {"n", "r"} THEN TRUE
             ELSE isMultilineRegexSourceFrom_EscapeNotConsumed(searchString, i + 1)
    ELSE isMultilineRegexSourceFrom_EscapeNotConsumed(searchString, i + 1)

RECURSIVE isMultilineRegexSourceFrom(_, _)
isMultilineRegexSourceFrom(searchString, i) ==
    IF i > Len(searchString) THEN FALSE
    ELSE IF searchString[i] = Backslash THEN
             IF i + 1 > Len(searchString) THEN FALSE
             ELSE IF searchString[i + 1] \in {"n", "r"} THEN TRUE
             ELSE isMultilineRegexSourceFrom(searchString, i + 2)
    ELSE isMultilineRegexSourceFrom(searchString, i + 1)

isMultilineRegexSource(searchString) ==
    IF Len(searchString) = 0 THEN FALSE
    ELSE isMultilineRegexSourceFrom(searchString, 1)

\* The null SearchData.
NoSearchData ==
    [ok |-> FALSE, regex |-> NoRegExp, wordSeparators |-> << >>, simpleSearch |-> << >>]

\* parseSearchRequest with the literal fast path set for every non-regex,
\* non-multiline query, whatever its case.
parseSearchRequest_CaseNotTested(params) ==
    IF params.searchString = << >> THEN NoSearchData
    ELSE LET multiline == IF params.isRegex
                          THEN isMultilineRegexSource(params.searchString)
                          ELSE LineFeed \in SeqRange(params.searchString)
             regex == createRegExp(params.searchString, params.isRegex,
                                   params.matchCase, multiline)
             canUseSimpleSearch == (~params.isRegex /\ ~multiline)
         IN IF ~regex.ok THEN NoSearchData
            ELSE [ok |-> TRUE, regex |-> regex,
                  wordSeparators |-> params.wordSeparators,
                  simpleSearch |-> IF canUseSimpleSearch THEN params.searchString
                                   ELSE << >>]

\* SearchParams.parseSearchRequest.  In the SearchData a null classifier is
\* the empty separator string and a null simpleSearch the empty string.
parseSearchRequest(params) ==
    IF params.searchString = << >> THEN NoSearchData
    ELSE LET multiline == IF params.isRegex
                          THEN isMultilineRegexSource(params.searchString)
                          ELSE LineFeed \in SeqRange(params.searchString)
             regex == createRegExp(params.searchString, params.isRegex,
                                   params.matchCase, multiline)
             canUseSimpleSearch0 == (~params.isRegex /\ ~multiline)
             canUseSimpleSearch ==
                 IF canUseSimpleSearch0
                    /\ toLowerCase(params.searchString) # toUpperCase(params.searchString)
                 THEN params.matchCase
                 ELSE canUseSimpleSearch0
         IN IF ~regex.ok THEN NoSearchData
            ELSE [ok |-> TRUE, regex |-> regex,
                  wordSeparators |-> params.wordSeparators,
                  simpleSearch |-> IF canUseSimpleSearch THEN params.searchString
                                   ELSE << >>]

\* ------------------------------------------------------------------------
\* Stateful matcher.  lastIndex is the scan cursor of the searcher's regex.
\* ------------------------------------------------------------------------
NoMatch == [found |-> FALSE, index |-> 0, len |-> 0]

\* new Searcher(wordSeparators, searchRegex)
NewSearcher(wordSeparators, searchRegex) ==
    [wordSeparators |-> wordSeparators, searchRegex |-> searchRegex,
     lastIndex |-> 0, prevMatchStartIndex |-> -1, prevMatchLength |-> 0]

\* Searcher.reset
Searcher_reset(searcher, lastIndex) ==
    [searcher EXCEPT !.lastIndex = lastIndex,
                     !.prevMatchStartIndex = -1,
                     !.prevMatchLength = 0]

RECURSIVE Searcher_next(_, _)

\* Searcher.next with a regex whose cursor restarts one character after the
\* start of a non-empty match.
Searcher_nextAfterExec_RestartsInsideMatch(searcher, text, r) ==
    LET s1 == [searcher EXCEPT !.lastIndex =
                   IF r.found /\ r.len > 0 THEN r.index + 1 ELSE r.lastIndex]
        s2 == [s1 EXCEPT !.prevMatchStartIndex = r.index,
                         !.prevMatchLength = r.len]
    IN IF ~r.found THEN [m |-> NoMatch, searcher |-> s1]
       ELSE IF r.index = searcher.prevMatchStartIndex
               /\ r.len = searcher.prevMatchLength
            THEN [m |-> NoMatch, searcher |-> s1]
       ELSE IF searcher.wordSeparators = << >>
               \/ isValidMatch(searcher.wordSeparators, text, Len(text),
                               r.index, r.len)
            THEN [m |-> [found |-> TRUE, index |-> r.index, len |-> r.len],
                  searcher |-> s2]
            ELSE Searcher_next(s2, text)

\* One iteration of the loop of Searcher.next from the point where exec has
\* returned r.
Searcher_nextAfterExec(searcher, text, r) ==
    LET s1 == [searcher EXCEPT !.lastIndex = r.lastIndex]
        s2 == [s1 EXCEPT !.prevMatchStartIndex = r.index,
                         !.prevMatchLength = r.len]
    IN IF ~r.found THEN [m |-> NoMatch, searcher |-> s1]
       ELSE IF r.index = searcher.prevMatchStartIndex
               /\ r.len = searcher.prevMatchLength
            THEN [m |-> NoMatch, searcher |-> s1]
       ELSE IF searcher.wordSeparators = << >>
               \/ isValidMatch(searcher.wordSeparators, text, Len(text),
                               r.index, r.len)
            THEN [m |-> [found |-> TRUE, index |-> r.index, len |-> r.len],
                  searcher |-> s2]
            ELSE Searcher_next(s2, text)

\* Searcher.next: the match (or NoMatch) and the searcher after the call.
Searcher_next(searcher, text) ==
    IF searcher.prevMatchStartIndex + searcher.prevMatchLength = Len(text)
    THEN [m |-> NoMatch, searcher |-> searcher]
    ELSE Searcher_nextAfterExec(searcher, text,
             RegExpExec(searcher.searchRegex, text, searcher.lastIndex))

\* ------------------------------------------------------------------------
\* The text buffer (vs/editor/common/model/textModel): its lines and its
\* end-of-line marker.
\* ------------------------------------------------------------------------
LF == <<LineFeed>>
CRLF == <<CarriageReturn, LineFeed>>

Position(lineNumber, column) == [lineNumber |-> lineNumber, column |-> column]

Range(startLineNumber, startColumn, endLineNumber, endColumn) ==
    [startLineNumber |-> startLineNumber, startColumn |-> startColumn,
     endLineNumber |-> endLineNumber, endColumn |-> endColumn]

getStartPosition(range) == Position(range.startLineNumber, range.startColumn)
getEndPosition(range) == Position(range.endLineNumber, range.endColumn)

getEOL(model) == model.EOL
getLineCount(model) == Len(model.lines)
getLineContent(model, lineNumber) == model.lines[lineNumber]
getLineMaxColumn(model, lineNumber) == Len(model.lines[lineNumber]) + 1

\* The offset of the start of a line in the buffer's own text.
RECURSIVE LineStartOffset(_, _)
LineStartOffset(model, lineNumber) ==
    IF lineNumber = 1 THEN 0
    ELSE LineStartOffset(model, lineNumber - 1)
            + Len(model.lines[lineNumber - 1]) + Len(model.EOL)

getOffsetAt(model, position) ==
    LineStartOffset(model, position.lineNumber) + position.column - 1

\* getPositionAt: the line the offset falls in (its end-of-line included),
\* the column clamped to the line's maximal column.
RECURSIVE PositionAtFrom(_, _, _)
PositionAtFrom(model, lineNumber, rest) ==
    LET len == Len(model.lines[lineNumber]) IN
    IF lineNumber = Len(model.lines) \/ rest < len + Len(model.EOL)
    THEN Position(lineNumber, 1 + (IF rest > len THEN len ELSE rest))
    ELSE PositionAtFrom(model, lineNumber + 1, rest - len - Len(model.EOL))

getPositionAt(model, offset) == PositionAtFrom(model, 1, offset)

\* The lines first..last joined by eol, the last one cut at lastLen.
RECURSIVE JoinLines(_, _, _, _, _)
JoinLines(model, first, last, lastLen, eol) ==
    IF first = last THEN Substring(model.lines[last], 0, lastLen)
    ELSE model.lines[first] \o eol \o JoinLines(model, first + 1, last, lastLen, eol)

getValueInRange(model, range, eol) ==
    IF range.startLineNumber = range.endLineNumber
    THEN Substring(model.lines[range.startLineNumber],
                   range.startColumn - 1, range.endColumn - 1)
    ELSE Substring(model.lines[range.startLineNumber], range.startColumn - 1,
                   Len(model.lines[range.startLineNumber]))
            \o eol
            \o JoinLines(model, range.startLineNumber + 1, range.endLineNumber,
                         range.endColumn - 1, eol)

\* ------------------------------------------------------------------------
\* Search orchestrator.  A FindMatch is a range and its captures, the empty
\* sequence when there are none (null).  An orchestrator operation returns
\* its result and, in scans, the ranges of the texts it has scanned.
\* ------------------------------------------------------------------------
FindMatch(range, matches) == [range |-> range, matches |-> matches]

\* The RegExpExecArray of a match: group 0, the matched substring.
RawMatches(text, m) == <<SubSeq(text, m.index + 1, m.index + m.len)>>

\* createFindMatch keeping the captures whether or not they are requested.
createFindMatch_AlwaysCaptures(range, rawMatches, captureMatches) ==
    FindMatch(range, rawMatches)

createFindMatch(range, rawMatches, captureMatches) ==
    IF ~captureMatches THEN FindMatch(range, << >>)
    ELSE FindMatch(range, rawMatches)

Scanned(result, scans) == [result |-> result, scans |-> scans]

\* _getMultilineMatchRange without the carriage returns inside the match.
getMultilineMatchRange_NoLineFeedInMatch(model, deltaOffset, text, matchIndex, match0) ==
    LET lineFeedCountBeforeMatch ==
            Cardinality({i \in 0..(matchIndex - 1) : text[i + 1] = LineFeed})
        startOffset ==
            IF getEOL(model) = CRLF
            THEN deltaOffset + matchIndex + lineFeedCountBeforeMatch
            ELSE deltaOffset + matchIndex
        endOffset == startOffset + Len(match0)
        startPosition == getPositionAt(model, startOffset)
        endPosition == getPositionAt(model, endOffset)
    IN Range(startPosition.lineNumber, startPosition.column,
             endPosition.lineNumber, endPosition.column)

getMultilineMatchRange(model, deltaOffset, text, matchIndex, match0) ==
    LET lineFeedCountBeforeMatch ==
            Cardinality({i \in 0..(matchIndex - 1) : text[i + 1] = LineFeed})
        startOffset ==
            IF getEOL(model) = CRLF
            THEN deltaOffset + matchIndex + lineFeedCountBeforeMatch
            ELSE deltaOffset + matchIndex
        lineFeedCountInMatch ==
            Cardinality({i \in 0..(Len(match0) - 1) : text[i + matchIndex + 1] = LineFeed})
        endOffset ==
            IF getEOL(model) = CRLF
            THEN startOffset + Len(match0) + lineFeedCountInMatch
            ELSE startOffset + Len(match0)
        startPosition == getPositionAt(model, startOffset)
        endPosition == getPositionAt(model, endOffset)
    IN Range(startPosition.lineNumber, startPosition.column,
             endPosition.lineNumber, endPosition.column)

\* The FindMatch of the match m of a multiline text.
MultilineMatch(model, deltaOffset, text, m, captureMatches) ==
    createFindMatch(
        getMultilineMatchRange(model, deltaOffset, text, m.index, RawMatches(text, m)[1]),
        RawMatches(text, m), captureMatches)

\* The while loop of _doFindMatchesMultiline.  The state of the loop is what
\* searcher.next has returned in the loop's condition (n), the matches
\* stored so far (result) and whether the loop has been left (done).
LoopState(n, result, done) == [n |-> n, result |-> result, done |-> done]

\* One iteration of the loop.
MultilineLoopBody(model, deltaOffset, text, st, captureMatches, limitResultCount) ==
    IF st.done THEN st
    ELSE IF ~st.n.m.found THEN LoopState(st.n, st.result, TRUE)
    ELSE LET result1 == Append(st.result,
                 MultilineMatch(model, deltaOffset, text, st.n.m, captureMatches))
         IN IF Len(result1) >= limitResultCount THEN LoopState(st.n, result1, TRUE)
            ELSE LoopState(Searcher_next(st.n.searcher, text), result1, FALSE)

\* At most k iterations of the loop, run as two halves one after the other
\* (the nesting of the evaluation stays logarithmic in k, so that a loop of
\* thousands of iterations can be run).
RECURSIVE MultilineLoopTimes(_, _, _, _, _, _, _)
MultilineLoopTimes(model, deltaOffset, text, k, st, captureMatches, limitResultCount) ==
    IF k = 0 \/ st.done THEN st
    ELSE IF k = 1
    THEN MultilineLoopBody(model, deltaOffset, text, st, captureMatches, limitResultCount)
    ELSE MultilineLoopTimes(model, deltaOffset, text, k - (k \div 2),
             MultilineLoopTimes(model, deltaOffset, text, k \div 2, st,
                                captureMatches, limitResultCount),
             captureMatches, limitResultCount)

\* The loop run to its end: every match starts after the start of the match
\* before it, so the loop is left within Len(text) + 2 iterations.
MultilineLoop(model, deltaOffset, text, n, result, captureMatches, limitResultCount) ==
    MultilineLoopTimes(model, deltaOffset, text, Len(text) + 2,
                       LoopState(n, result, FALSE),
                       captureMatches, limitResultCount).result

\* _doFindMatchesMultiline without the offset of the start of the range.
doFindMatchesMultiline_NoDeltaOffset(model, searchRange, searcher, captureMatches, limitResultCount) ==
    LET text == getValueInRange(model, searchRange, LF)
    IN Scanned(MultilineLoop(model, 0, text,
                             Searcher_next(Searcher_reset(searcher, 0), text),
                             << >>, captureMatches, limitResultCount),
               <<searchRange>>)

doFindMatchesMultiline(model, searchRange, searcher, captureMatches, limitResultCount) ==
    LET deltaOffset == getOffsetAt(model, getStartPosition(searchRange))
        text == getValueInRange(model, searchRange, LF)
    IN Scanned(MultilineLoop(model, deltaOffset, text,
                             Searcher_next(Searcher_reset(searcher, 0), text),
                             << >>, captureMatches, limitResultCount),
               <<searchRange>>)

\* The indexOf loop of _findMatchesInLine going on one character after the
\* start of the last occurrence.
RECURSIVE SimpleSearchLoop_Overlapping(_, _, _, _, _, _, _)
SimpleSearchLoop_Overlapping(searchData, text, lineNumber, deltaOffset, lastMatchIndex0, result, limitResultCount) ==
    LET searchString == searchData.simpleSearch
        searchStringLen == Len(searchString)
        lastMatchIndex ==
            indexOf(text, searchString,
                    IF lastMatchIndex0 < 0 THEN 0 ELSE lastMatchIndex0 + 1)
    IN IF lastMatchIndex = -1 THEN result
       ELSE IF searchData.wordSeparators = << >>
               \/ isValidMatch(searchData.wordSeparators, text, Len(text),
                               lastMatchIndex, searchStringLen)
            THEN LET result1 == Append(result,
                         FindMatch(Range(lineNumber, lastMatchIndex + 1 + deltaOffset,
                                         lineNumber,
                                         lastMatchIndex + 1 + searchStringLen + deltaOffset),
                                   << >>))
                 IN IF Len(result1) >= limitResultCount THEN result1
                    ELSE SimpleSearchLoop_Overlapping(searchData, text, lineNumber,
                             deltaOffset, lastMatchIndex, result1, limitResultCount)
            ELSE SimpleSearchLoop_Overlapping(searchData, text, lineNumber, deltaOffset,
                                              lastMatchIndex, result, limitResultCount)

\* The indexOf loop of _findMatchesInLine (the literal fast path).
RECURSIVE SimpleSearchLoop(_, _, _, _, _, _, _)
SimpleSearchLoop(searchData, text, lineNumber, deltaOffset, lastMatchIndex0, result, limitResultCount) ==
    LET searchString == searchData.simpleSearch
        searchStringLen == Len(searchString)
        lastMatchIndex == indexOf(text, searchString, lastMatchIndex0 + searchStringLen)
    IN IF lastMatchIndex = -1 THEN result
       ELSE IF searchData.wordSeparators = << >>
               \/ isValidMatch(searchData.wordSeparators, text, Len(text),
                               lastMatchIndex, searchStringLen)
            THEN LET result1 == Append(result,
                         FindMatch(Range(lineNumber, lastMatchIndex + 1 + deltaOffset,
                                         lineNumber,
                                         lastMatchIndex + 1 + searchStringLen + deltaOffset),
                                   << >>))
                 IN IF Len(result1) >= limitResultCount THEN result1
                    ELSE SimpleSearchLoop(searchData, text, lineNumber, deltaOffset,
                                          lastMatchIndex, result1, limitResultCount)
            ELSE SimpleSearchLoop(searchData, text, lineNumber, deltaOffset,
                                  lastMatchIndex, result, limitResultCount)

\* The FindMatch of the match m of the text of a line, its columns shifted
\* by deltaOffset.
LineMatch(text, lineNumber, deltaOffset, m, captureMatches) ==
    createFindMatch(Range(lineNumber, m.index + 1 + deltaOffset,
                          lineNumber, m.index + 1 + m.len + deltaOffset),
                    RawMatches(text, m), captureMatches)

\* The do-while loop of _findMatchesInLine (the regex path); n is what
\* searcher.next has returned at the top of the iteration.
RECURSIVE SearcherLoop(_, _, _, _, _, _, _)
SearcherLoop(n, text, lineNumber, deltaOffset, result, captureMatches, limitResultCount) ==
    IF ~n.m.found THEN result
    ELSE LET result1 == Append(result,
                 LineMatch(text, lineNumber, deltaOffset, n.m, captureMatches))
         IN IF Len(result1) >= limitResultCount THEN result1
            ELSE SearcherLoop(Searcher_next(n.searcher, text), text, lineNumber,
                              deltaOffset, result1, captureMatches, limitResultCount)

\* _findMatchesInLine without the shift of the columns by deltaOffset.
findMatchesInLine_NoDeltaOffset(searchData, text, lineNumber, deltaOffset, result, captureMatches, limitResultCount) ==
    IF ~captureMatches /\ searchData.simpleSearch # << >>
    THEN SimpleSearchLoop(searchData, text, lineNumber, 0,
                          -Len(searchData.simpleSearch), result, limitResultCount)
    ELSE SearcherLoop(
             Searcher_next(
                 Searcher_reset(NewSearcher(searchData.wordSeparators, searchData.regex), 0),
                 text),
             text, lineNumber, 0, result, captureMatches, limitResultCount)

\* _findMatchesInLine: result with the matches of text appended.
findMatchesInLine(searchData, text, lineNumber, deltaOffset, result, captureMatches, limitResultCount) ==
    IF ~captureMatches /\ searchData.simpleSearch # << >>
    THEN SimpleSearchLoop(searchData, text, lineNumber, deltaOffset,
                          -Len(searchData.simpleSearch), result, limitResultCount)
    ELSE SearcherLoop(
             Searcher_next(
                 Searcher_reset(NewSearcher(searchData.wordSeparators, searchData.regex), 0),
                 text),
             text, lineNumber, deltaOffset, result, captureMatches, limitResultCount)

LineRange(lineNumber, startColumn, endColumn) ==
    Range(lineNumber, startColumn, lineNumber, endColumn)

\* The for loop over the middle lines of _doFindMatchesLineByLine.
RECURSIVE MiddleLinesLoop(_, _, _, _, _, _, _)
MiddleLinesLoop(model, lineNumber, endLineNumber, searchData, acc, captureMatches, limitResultCount) ==
    IF lineNumber < endLineNumber /\ Len(acc.result) < limitResultCount
    THEN MiddleLinesLoop(model, lineNumber + 1, endLineNumber, searchData,
             Scanned(findMatchesInLine(searchData, getLineContent(model, lineNumber),
                                       lineNumber, 0, acc.result, captureMatches,
                                       limitResultCount),
                     Append(acc.scans,
                            LineRange(lineNumber, 1,
                                      getLineMaxColumn(model, lineNumber)))),
             captureMatches, limitResultCount)
    ELSE acc

\* _doFindMatchesLineByLine scanning the last line whatever the count.
doFindMatchesLineByLine_NoLimitTest(model, searchRange, searchData, captureMatches, limitResultCount) ==
    IF searchRange.startLineNumber = searchRange.endLineNumber
    THEN LET text == Substring(getLineContent(model, searchRange.startLineNumber),
                               searchRange.startColumn - 1, searchRange.endColumn - 1)
         IN Scanned(findMatchesInLine(searchData, text, searchRange.startLineNumber,
                                      searchRange.startColumn - 1, << >>,
                                      captureMatches, limitResultCount),
                    <<searchRange>>)
    ELSE LET firstLine == getLineContent(model, searchRange.startLineNumber)
             text1 == Substring(firstLine, searchRange.startColumn - 1, Len(firstLine))
             acc1 == Scanned(
                 findMatchesInLine(searchData, text1, searchRange.startLineNumber,
                                   searchRange.startColumn - 1, << >>,
                                   captureMatches, limitResultCount),
                 <<LineRange(searchRange.startLineNumber, searchRange.startColumn,
                             getLineMaxColumn(model, searchRange.startLineNumber))>>)
             acc2 == MiddleLinesLoop(model, searchRange.startLineNumber + 1,
                                     searchRange.endLineNumber, searchData, acc1,
                                     captureMatches, limitResultCount)
             text3 == Substring(getLineContent(model, searchRange.endLineNumber),
                                0, searchRange.endColumn - 1)
         IN Scanned(findMatchesInLine(searchData, text3, searchRange.endLineNumber,
                                      0, acc2.result, captureMatches, limitResultCount),
                    Append(acc2.scans,
                           LineRange(searchRange.endLineNumber, 1,
                                     searchRange.endColumn)))

doFindMatchesLineByLine(model, searchRange, searchData, captureMatches, limitResultCount) ==
    IF searchRange.startLineNumber = searchRange.endLineNumber
    THEN LET text == Substring(getLineContent(model, searchRange.startLineNumber),
                               searchRange.startColumn - 1, searchRange.endColumn - 1)
         IN Scanned(findMatchesInLine(searchData, text, searchRange.startLineNumber,
                                      searchRange.startColumn - 1, << >>,
                                      captureMatches, limitResultCount),
                    <<searchRange>>)
    ELSE LET firstLine == getLineContent(model, searchRange.startLineNumber)
             text1 == Substring(firstLine, searchRange.startColumn - 1, Len(firstLine))
             acc1 == Scanned(
                 findMatchesInLine(searchData, text1, searchRange.startLineNumber,
                                   searchRange.startColumn - 1, << >>,
                                   captureMatches, limitResultCount),
                 <<LineRange(searchRange.startLineNumber, searchRange.startColumn,
                             getLineMaxColumn(model, searchRange.startLineNumber))>>)
             acc2 == MiddleLinesLoop(model, searchRange.startLineNumber + 1,
                                     searchRange.endLineNumber, searchData, acc1,
                                     captureMatches, limitResultCount)
         IN IF Len(acc2.result) < limitResultCount
            THEN LET text3 == Substring(getLineContent(model, searchRange.endLineNumber),
                                        0, searchRange.endColumn - 1)
                 IN Scanned(findMatchesInLine(searchData, text3, searchRange.endLineNumber,
                                              0, acc2.result, captureMatches,
                                              limitResultCount),
                            Append(acc2.scans,
                                   LineRange(searchRange.endLineNumber, 1,
                                             searchRange.endColumn)))
            ELSE acc2

\* TextModelSearch.findMatches
findMatches(model, searchParams, searchRange, captureMatches, limitResultCount) ==
    LET searchData == parseSearchRequest(searchParams) IN
    IF ~searchData.ok THEN Scanned(<< >>, << >>)
    ELSE IF searchData.regex.multiline
         THEN doFindMatchesMultiline(model, searchRange,
                  NewSearcher(searchData.wordSeparators, searchData.regex),
                  captureMatches, limitResultCount)
         ELSE doFindMatchesLineByLine(model, searchRange, searchData,
                                      captureMatches, limitResultCount)

LIMIT_FIND_COUNT == 999

\* The range of the whole buffer from the start of a line.
RestOfBuffer(model, lineNumber) ==
    Range(lineNumber, 1, getLineCount(model),
          getLineMaxColumn(model, getLineCount(model)))

\* _doFindNextMatchMultiline; scans holds the scan of the first pass when
\* this call is the retry from the top.
RECURSIVE doFindNextMatchMultiline(_, _, _, _, _)
doFindNextMatchMultiline(model, searchStart, searcher, captureMatches, scans) ==
    LET searchTextStart == Position(searchStart.lineNumber, 1)
        deltaOffset == getOffsetAt(model, searchTextStart)
        textRange == RestOfBuffer(model, searchTextStart.lineNumber)
        text == getValueInRange(model, textRange, LF)
        n == Searcher_next(Searcher_reset(searcher, searchStart.column - 1), text)
        scans1 == Append(scans, textRange)
    IN IF n.m.found
       THEN LET raw == RawMatches(text, n.m)
            IN Scanned(<<createFindMatch(
                           getMultilineMatchRange(model, deltaOffset, text, n.m.index, raw[1]),
                           raw, captureMatches)>>,
                       scans1)
       ELSE IF searchStart.lineNumber # 1 \/ searchStart.column # 1
            THEN doFindNextMatchMultiline(model, Position(1, 1), n.searcher,
                                          captureMatches, scans1)
            ELSE Scanned(<< >>, scans1)

\* The match of the text of a line with its 0-based offsets as columns.
OptionalMatch_ZeroBased(text, lineNumber, m, captureMatches) ==
    IF m.found THEN <<LineMatch(text, lineNumber, -1, m, captureMatches)>>
    ELSE << >>

\* The match m of the text of a line as a FindMatch in a one-element
\* sequence, or the empty sequence (null) when there is none.
OptionalMatch(text, lineNumber, m, captureMatches) ==
    IF m.found THEN <<LineMatch(text, lineNumber, 0, m, captureMatches)>>
    ELSE << >>

\* _findFirstMatchInLine scanning from the offset after fromColumn.
findFirstMatchInLine_AfterColumn(searcher, text, lineNumber, fromColumn, captureMatches) ==
    OptionalMatch(text, lineNumber,
                  Searcher_next(Searcher_reset(searcher, fromColumn), text).m,
                  captureMatches)

\* _findFirstMatchInLine
findFirstMatchInLine(searcher, text, lineNumber, fromColumn, captureMatches) ==
    OptionalMatch(text, lineNumber,
                  Searcher_next(Searcher_reset(searcher, fromColumn - 1), text).m,
                  captureMatches)

WholeLine(model, lineNumber) ==
    LineRange(lineNumber, 1, getLineMaxColumn(model, lineNumber))

\* The for loop of _doFindNextMatchLineByLine going one line further than the
\* number of lines of the buffer.
RECURSIVE NextLinesLoop_OneMoreLine(_, _, _, _, _, _)
NextLinesLoop_OneMoreLine(model, startLineNumber, i, searcher, captureMatches, scans) ==
    LET lineCount == getLineCount(model) IN
    IF i > lineCount + 1 THEN Scanned(<< >>, scans)
    ELSE LET lineIndex == (startLineNumber + i - 1) % lineCount
             text == getLineContent(model, lineIndex + 1)
             r == findFirstMatchInLine(searcher, text, lineIndex + 1, 1, captureMatches)
             scans1 == Append(scans, WholeLine(model, lineIndex + 1))
         IN IF r # << >> THEN Scanned(r, scans1)
            ELSE NextLinesLoop_OneMoreLine(model, startLineNumber, i + 1, searcher,
                                           captureMatches, scans1)

\* The for loop of _doFindNextMatchLineByLine.
RECURSIVE NextLinesLoop(_, _, _, _, _, _)
NextLinesLoop(model, startLineNumber, i, searcher, captureMatches, scans) ==
    LET lineCount == getLineCount(model) IN
    IF i > lineCount THEN Scanned(<< >>, scans)
    ELSE LET lineIndex == (startLineNumber + i - 1) % lineCount
             text == getLineContent(model, lineIndex + 1)
             r == findFirstMatchInLine(searcher, text, lineIndex + 1, 1, captureMatches)
             scans1 == Append(scans, WholeLine(model, lineIndex + 1))
         IN IF r # << >> THEN Scanned(r, scans1)
            ELSE NextLinesLoop(model, startLineNumber, i + 1, searcher,
                               captureMatches, scans1)

\* _doFindNextMatchLineByLine with a loop that stops at the last line of the
\* buffer.
RECURSIVE NextLinesLoop_NoWrap(_, _, _, _, _, _)
NextLinesLoop_NoWrap(model, startLineNumber, i, searcher, captureMatches, scans) ==
    IF startLineNumber + i > getLineCount(model) THEN Scanned(<< >>, scans)
    ELSE LET text == getLineContent(model, startLineNumber + i)
             r == findFirstMatchInLine(searcher, text, startLineNumber + i, 1,
                                       captureMatches)
             scans1 == Append(scans, WholeLine(model, startLineNumber + i))
         IN IF r # << >> THEN Scanned(r, scans1)
            ELSE NextLinesLoop_NoWrap(model, startLineNumber, i + 1, searcher,
                                      captureMatches, scans1)

doFindNextMatchLineByLine_NoWrap(model, searchStart, searcher, captureMatches) ==
    LET startLineNumber == searchStart.lineNumber
        text == getLineContent(model, startLineNumber)
        r == findFirstMatchInLine(searcher, text, startLineNumber,
                                  searchStart.column, captureMatches)
        scans == <<LineRange(startLineNumber, searchStart.column,
                             getLineMaxColumn(model, startLineNumber))>>
    IN IF r # << >> THEN Scanned(r, scans)
       ELSE NextLinesLoop_NoWrap(model, startLineNumber, 1, searcher,
                                 captureMatches, scans)

doFindNextMatchLineByLine(model, searchStart, searcher, captureMatches) ==
    LET startLineNumber == searchStart.lineNumber
        text == getLineContent(model, startLineNumber)
        r == findFirstMatchInLine(searcher, text, startLineNumber,
                                  searchStart.column, captureMatches)
        scans == <<LineRange(startLineNumber, searchStart.column,
                             getLineMaxColumn(model, startLineNumber))>>
    IN IF r # << >> THEN Scanned(r, scans)
       ELSE NextLinesLoop(model, startLineNumber, 1, searcher, captureMatches, scans)

\* findNextMatch without the test of a null SearchData.
findNextMatch_NoNullCheck(model, searchParams, searchStart, captureMatches) ==
    LET searchData == parseSearchRequest(searchParams)
        searcher == NewSearcher(searchData.wordSeparators, searchData.regex)
    IN IF searchData.regex.multiline
       THEN doFindNextMatchMultiline(model, searchStart, searcher, captureMatches, << >>)
       ELSE doFindNextMatchLineByLine(model, searchStart, searcher, captureMatches)

\* TextModelSearch.findNextMatch
findNextMatch(model, searchParams, searchStart, captureMatches) ==
    LET searchData == parseSearchRequest(searchParams) IN
    IF ~searchData.ok THEN Scanned(<< >>, << >>)
    ELSE LET searcher == NewSearcher(searchData.wordSeparators, searchData.regex)
         IN IF searchData.regex.multiline
            THEN doFindNextMatchMultiline(model, searchStart, searcher,
                                          captureMatches, << >>)
            ELSE doFindNextMatchLineByLine(model, searchStart, searcher, captureMatches)

\* _doFindPreviousMatchMultiline
RECURSIVE doFindPreviousMatchMultiline(_, _, _, _, _)
doFindPreviousMatchMultiline(model, searchStart, searcher, captureMatches, scans) ==
    LET found == doFindMatchesMultiline(model,
                     Range(1, 1, searchStart.lineNumber, searchStart.column),
                     searcher, captureMatches, 10 * LIMIT_FIND_COUNT)
        matches == found.result
        scans1 == scans \o found.scans
        lineCount == getLineCount(model)
    IN IF Len(matches) > 0 THEN Scanned(<<matches[Len(matches)]>>, scans1)
       ELSE IF searchStart.lineNumber # lineCount
               \/ searchStart.column # getLineMaxColumn(model, lineCount)
            THEN doFindPreviousMatchMultiline(model,
                     Position(lineCount, getLineMaxColumn(model, lineCount)),
                     searcher, captureMatches, scans1)
            ELSE Scanned(<< >>, scans1)

\* The while loop of _findLastMatchInLine; n is what searcher.next has
\* returned in the loop's condition.
RECURSIVE LastMatchLoop(_, _, _, _, _)
LastMatchLoop(n, text, lineNumber, captureMatches, bestResult) ==
    IF ~n.m.found THEN bestResult
    ELSE LastMatchLoop(Searcher_next(n.searcher, text), text, lineNumber,
                       captureMatches,
                       OptionalMatch(text, lineNumber, n.m, captureMatches))

\* _findLastMatchInLine keeping the first match of the line.
findLastMatchInLine_First(searcher, text, lineNumber, captureMatches) ==
    OptionalMatch(text, lineNumber,
                  Searcher_next(Searcher_reset(searcher, 0), text).m, captureMatches)

findLastMatchInLine(searcher, text, lineNumber, captureMatches) ==
    LastMatchLoop(Searcher_next(Searcher_reset(searcher, 0), text), text,
                  lineNumber, captureMatches, << >>)

\* The for loop of _doFindPreviousMatchLineByLine.
RECURSIVE PreviousLinesLoop(_, _, _, _, _, _)
PreviousLinesLoop(model, startLineNumber, i, searcher, captureMatches, scans) ==
    LET lineCount == getLineCount(model) IN
    IF i > lineCount THEN Scanned(<< >>, scans)
    ELSE LET lineIndex == (lineCount + startLineNumber - i - 1) % lineCount
             text == getLineContent(model, lineIndex + 1)
             r == findLastMatchInLine(searcher, text, lineIndex + 1, captureMatches)
             scans1 == Append(scans, WholeLine(model, lineIndex + 1))
         IN IF r # << >> THEN Scanned(r, scans1)
            ELSE PreviousLinesLoop(model, startLineNumber, i + 1, searcher,
                                   captureMatches, scans1)

\* _doFindPreviousMatchLineByLine scanning the starting line in full.
doFindPreviousMatchLineByLine_WholeLine(model, searchStart, searcher, captureMatches) ==
    LET startLineNumber == searchStart.lineNumber
        text == getLineContent(model, startLineNumber)
        r == findLastMatchInLine(searcher, text, startLineNumber, captureMatches)
        scans == <<LineRange(startLineNumber, 1, searchStart.column)>>
    IN IF r # << >> THEN Scanned(r, scans)
       ELSE PreviousLinesLoop(model, startLineNumber, 1, searcher, captureMatches, scans)

doFindPreviousMatchLineByLine(model, searchStart, searcher, captureMatches) ==
    LET startLineNumber == searchStart.lineNumber
        text == Substring(getLineContent(model, startLineNumber), 0,
                          searchStart.column - 1)
        r == findLastMatchInLine(searcher, text, startLineNumber, captureMatches)
        scans == <<LineRange(startLineNumber, 1, searchStart.column)>>
    IN IF r # << >> THEN Scanned(r, scans)
       ELSE PreviousLinesLoop(model, startLineNumber, 1, searcher, captureMatches, scans)

\* TextModelSearch.findPreviousMatch
findPreviousMatch(model, searchParams, searchStart, captureMatches) ==
    LET searchData == parseSearchRequest(searchParams) IN
    IF ~searchData.ok THEN Scanned(<< >>, << >>)
    ELSE LET searcher == NewSearcher(searchData.wordSeparators, searchData.regex)
         IN IF searchData.regex.multiline
            THEN doFindPreviousMatchMultiline(model, searchStart, searcher,
                                              captureMatches, << >>)
            ELSE doFindPreviousMatchLineByLine(model, searchStart, searcher,
                                               captureMatches)

\* ------------------------------------------------------------------------
\* The inputs: buffers, queries and call arguments, drawn from bounded sets.
\* ------------------------------------------------------------------------
MaxLines == 3
MaxChars == 4
MaxLimit == 2

\* The lines a buffer is made of.
LineVocab ==
    { << >>,
      <<"a">>,
      <<"a", "a", "a">>,
      <<"A", "a", " ", "a">> }

RECURSIVE TotalLen(_)
TotalLen(lines) ==
    IF lines = << >> THEN 0 ELSE Len(Head(lines)) + TotalLen(Tail(lines))

\* The buffers: at most MaxLines lines, MaxChars characters in all.
Buffers ==
    {b \in UNION {[1..n -> LineVocab] : n \in 1..MaxLines} : TotalLen(b) <= MaxChars}

Models == {[lines |-> b, EOL |-> e] : b \in Buffers, e \in {LF, CRLF}}

SearchParams(searchString, isRegex, matchCase, wordSeparators) ==
    [searchString |-> searchString, isRegex |-> isRegex,
     matchCase |-> matchCase, wordSeparators |-> wordSeparators]

NoSeparators == << >>
Separators == <<"-">>

\* The queries: literal words and the literal space (which has no case),
\* regexes (one matching the empty string, one spanning lines, one that is
\* multiline and matches every a with the line break after it), a literal
\* spanning lines, and the queries that do not compile (the empty string, a
\* regex with a syntax error).
Queries ==
    {SearchParams(s, FALSE, c, w) :
        s \in {<<"a">>, <<"a", "a">>, <<Space>>}, c \in BOOLEAN,
        w \in {NoSeparators, Separators}}
    \cup
    {SearchParams(s, TRUE, TRUE, w) :
        s \in {<<"a", "*">>, <<"a", Backslash, "n", "a">>,
               <<"a", Backslash, "n", "*">>},
        w \in {NoSeparators, Separators}}
    \cup
    {SearchParams(<<"a", LineFeed, "a">>, FALSE, TRUE, w) :
        w \in {NoSeparators, Separators}}
    \cup
    {SearchParams(s, r, TRUE, NoSeparators) : s \in {<< >>, <<"(">>}, r \in BOOLEAN}

\* The positions of a buffer, and its ranges (start before or at the end).
Positions(m) ==
    UNION {{Position(l, c) : c \in 1..(Len(m.lines[l]) + 1)} : l \in 1..Len(m.lines)}

PositionLE(p, q) ==
    \/ p.lineNumber < q.lineNumber
    \/ p.lineNumber = q.lineNumber /\ p.column <= q.column

Ranges(m) ==
    {Range(pq[1].lineNumber, pq[1].column, pq[2].lineNumber, pq[2].column) :
        pq \in {x \in Positions(m) \X Positions(m) : PositionLE(x[1], x[2])}}

\* The limits of findMatches: the small ones, and the production default.
Limits == (0..MaxLimit) \cup {LIMIT_FIND_COUNT}

\* ------------------------------------------------------------------------
\* The state: the buffer, the query, and the last call with its arguments,
\* its result and the texts it scanned.  The last two variables belong to a
\* call that is run loop iteration by loop iteration: its position in the
\* code (pc) and its locals (frame): the text being scanned and its searcher,
\* the line and the column shift of that text, the last value searcher.next
\* has returned (m), the matches stored so far (result), the cursor of the
\* indexOf loop and the counter of the loop over the lines (or of the passes
\* over a multiline text).  steps counts the loop iterations the call has
\* made.
\* ------------------------------------------------------------------------
VARIABLES model, searchParams, op, searchRange, searchStart, captureMatches,
          limitResultCount, result, scans, pc, frame, steps

callVars == <<model, searchParams, op, searchRange, searchStart, captureMatches,
              limitResultCount, result, scans>>

locals == <<pc, frame, steps>>

vars == <<callVars, locals>>

\* The locals before a call.
NoFrame ==
    [text |-> << >>, searcher |-> NewSearcher(<< >>, NoRegExp), lineNumber |-> 0,
     deltaOffset |-> 0, m |-> NoMatch, result |-> << >>, lastMatchIndex |-> 0,
     i |-> 0]

Init ==
    /\ pc = "idle"
    /\ frame = NoFrame
    /\ steps = 0
    /\ model \in Models
    /\ searchParams \in Queries
    /\ op = "idle"
    /\ searchRange = Range(1, 1, 1, 1)
    /\ searchStart = Position(1, 1)
    /\ captureMatches = FALSE
    /\ limitResultCount = 0
    /\ result = << >>
    /\ scans = << >>

FindMatchesCall ==
    /\ op = "idle"
    /\ \E r \in Ranges(model), c \in BOOLEAN, l \in Limits :
          LET f == findMatches(model, searchParams, r, c, l) IN
          /\ op' = "findMatches"
          /\ searchRange' = r
          /\ captureMatches' = c
          /\ limitResultCount' = l
          /\ result' = f.result
          /\ scans' = f.scans
    /\ UNCHANGED <<model, searchParams, searchStart>>
    /\ UNCHANGED locals

FindNextMatchCall ==
    /\ op = "idle"
    /\ \E p \in Positions(model), c \in BOOLEAN :
          LET f == findNextMatch(model, searchParams, p, c) IN
          /\ op' = "findNextMatch"
          /\ searchStart' = p
          /\ captureMatches' = c
          /\ result' = f.result
          /\ scans' = f.scans
    /\ UNCHANGED <<model, searchParams, searchRange, limitResultCount>>
    /\ UNCHANGED locals

FindPreviousMatchCall ==
    /\ op = "idle"
    /\ \E p \in Positions(model), c \in BOOLEAN :
          LET f == findPreviousMatch(model, searchParams, p, c) IN
          /\ op' = "findPreviousMatch"
          /\ searchStart' = p
          /\ captureMatches' = c
          /\ result' = f.result
          /\ scans' = f.scans
    /\ UNCHANGED <<model, searchParams, searchRange, limitResultCount>>
    /\ UNCHANGED locals

Next ==
    \/ FindMatchesCall
    \/ FindNextMatchCall
    \/ FindPreviousMatchCall

Spec == Init /\ [][Next]_vars

\* ------------------------------------------------------------------------
\* Definitions the properties share
\* ------------------------------------------------------------------------
Compiled == parseSearchRequest(searchParams)
IsMultiline == Compiled.ok /\ Compiled.regex.multiline
IsLineByLine == Compiled.ok /\ ~Compiled.regex.multiline
HasClassifier == searchParams.wordSeparators # << >>

\* A limit no call of the model reaches.
NoLimit == 10 * LIMIT_FIND_COUNT

WholeBuffer(m) == Range(1, 1, Len(m.lines), Len(m.lines[Len(m.lines)]) + 1)

RangesOf(matches) == [i \in 1..Len(matches) |-> matches[i].range]
StartOf(match) == getStartPosition(match.range)
EndOf(match) == getEndPosition(match.range)

PositionLT(p, q) == PositionLE(p, q) /\ p # q

Min2(a, b) == IF a < b THEN a ELSE b

\* What findMatches returns for the call's inputs with a limit never reached.
Unlimited(range) ==
    findMatches(model, searchParams, range, captureMatches, NoLimit).result

\* The matches the matcher accepts when it scans text from offset from.
ScanLine(text, lineNumber, from) ==
    SearcherLoop(
        Searcher_next(
            Searcher_reset(NewSearcher(Compiled.wordSeparators, Compiled.regex), from),
            text),
        text, lineNumber, 0, << >>, captureMatches, NoLimit)

\* ------------------------------------------------------------------------
\* C1: findMatches returns at most resultLimit matches, for every
\* resultLimit >= 0, in the line-by-line strategy (regex path and fast path)
\* and in the multiline strategy.
\* ------------------------------------------------------------------------
C1_AtMostLimit ==
    op = "findMatches" => Len(result) <= limitResultCount

\* ------------------------------------------------------------------------
\* C2: when the query does not compile (an empty pattern, a regex whose
\* construction fails) findMatches returns the empty sequence, findNextMatch
\* and findPreviousMatch return null, and no text of the buffer is scanned.
\* ------------------------------------------------------------------------
Uncompilable(params) ==
    \/ params.searchString = << >>
    \/ /\ params.isRegex
       /\ ~ParseRegExp(params.searchString, 1, << >>).ok

C2_UncompilableQueryFindsNothing ==
    (op # "idle" /\ Uncompilable(searchParams)) => (result = << >> /\ scans = << >>)

C2_Witness ==
    /\ op = "findNextMatch"
    /\ searchParams.searchString = <<"(">>
    /\ searchParams.isRegex
    /\ model.lines = <<<<"a">>, <<"a">>>>
    /\ result = << >>

\* ------------------------------------------------------------------------
\* C3: for a non-regex pattern without a line feed, matchCase = true and no
\* separators, findMatches (limit not reached) returns exactly the
\* occurrences of left-to-right non-overlapping exact substring scanning of
\* the in-range part of each line, as 1-based ranges (column = offset + 1 +
\* the shift of the range start).  The pattern is not empty: an empty
\* pattern does not compile (C2).
\* ------------------------------------------------------------------------
\* The offsets of the occurrences of pattern in text found from offset from
\* on, each scan resuming after the previous occurrence; matchCase = FALSE
\* compares the characters whatever their case.
SameChar(matchCase, a, b) ==
    IF matchCase THEN a = b ELSE toLowerCaseChar(a) = toLowerCaseChar(b)

RECURSIVE SubstringScan(_, _, _, _)
SubstringScan(text, pattern, matchCase, from) ==
    LET occ == {i \in from..(Len(text) - Len(pattern)) :
                   \A j \in 1..Len(pattern) : SameChar(matchCase, text[i + j], pattern[j])}
    IN IF occ = {} THEN << >>
       ELSE <<SetMin(occ)>>
               \o SubstringScan(text, pattern, matchCase, SetMin(occ) + Len(pattern))

\* The in-range part of a line of the buffer and the offset it starts at.
InRangeFrom(range, lineNumber) ==
    IF lineNumber = range.startLineNumber THEN range.startColumn - 1 ELSE 0

InRangeTo(m, range, lineNumber) ==
    IF lineNumber = range.endLineNumber THEN range.endColumn - 1
    ELSE Len(m.lines[lineNumber])

InRangePart(m, range, lineNumber) ==
    SubSeq(m.lines[lineNumber], InRangeFrom(range, lineNumber) + 1,
           InRangeTo(m, range, lineNumber))

\* The ranges of the occurrences (of length len, at the offsets given) in
\* the in-range part of a line.
OccurrenceRanges(offsets, len, lineNumber, shift) ==
    [k \in 1..Len(offsets) |->
        Range(lineNumber, offsets[k] + 1 + shift,
              lineNumber, offsets[k] + 1 + len + shift)]

RECURSIVE ExactScanRanges(_, _, _, _)
ExactScanRanges(m, pattern, range, lineNumber) ==
    IF lineNumber > range.endLineNumber THEN << >>
    ELSE OccurrenceRanges(
             SubstringScan(InRangePart(m, range, lineNumber), pattern, TRUE, 0),
             Len(pattern), lineNumber, InRangeFrom(range, lineNumber))
         \o ExactScanRanges(m, pattern, range, lineNumber + 1)

IsExactLiteralQuery ==
    /\ ~searchParams.isRegex
    /\ searchParams.searchString # << >>
    /\ LineFeed \notin SeqRange(searchParams.searchString)
    /\ searchParams.matchCase
    /\ ~HasClassifier

C3_ExactSubstringScanning ==
    (op = "findMatches" /\ IsExactLiteralQuery /\ Len(result) < limitResultCount)
        => RangesOf(result)
              = ExactScanRanges(model, searchParams.searchString, searchRange,
                                searchRange.startLineNumber)

\* Matches in the cut first line of the range and in a later line.
C3_Witness ==
    /\ op = "findMatches"
    /\ IsExactLiteralQuery
    /\ ~captureMatches
    /\ Len(result) < limitResultCount
    /\ searchRange.startColumn > 1
    /\ Len(result) >= 2
    /\ result[1].range.startLineNumber = searchRange.startLineNumber
    /\ result[Len(result)].range.startLineNumber > searchRange.startLineNumber

\* ------------------------------------------------------------------------
\* C4: for a non-multiline query, findNextMatch from P returns the first
\* match accepted when P's line is scanned from offset P.column - 1 and then
\* each following line from its beginning; that match starts at or after P,
\* and a match starting exactly at P is eligible.
\* ------------------------------------------------------------------------
\* The first match accepted in the lines lineNumber.. of the buffer, the
\* first of them scanned from offset from.
RECURSIVE FirstForward(_, _)
FirstForward(lineNumber, from) ==
    IF lineNumber > Len(model.lines) THEN << >>
    ELSE LET found == ScanLine(model.lines[lineNumber], lineNumber, from)
         IN IF found # << >> THEN <<found[1]>>
            ELSE FirstForward(lineNumber + 1, 0)

\* The regex matches at P itself and the match passes the word-boundary test.
MatchAtStart ==
    LET text == model.lines[searchStart.lineNumber]
        from == searchStart.column - 1
        e == MatchHere(Compiled.regex, 1, text, from)
    IN /\ e # -1
       /\ \/ ~HasClassifier
          \/ isValidMatch(searchParams.wordSeparators, text, Len(text), from, e - from)

C4_NextIsFirstAtOrAfter ==
    (op = "findNextMatch" /\ IsLineByLine) =>
        /\ FirstForward(searchStart.lineNumber, searchStart.column - 1) # << >>
              => /\ result = FirstForward(searchStart.lineNumber, searchStart.column - 1)
                 /\ PositionLE(searchStart, StartOf(result[1]))
        /\ MatchAtStart => (result # << >> /\ StartOf(result[1]) = searchStart)

\* A match that starts exactly at P, in the middle of a line, after an
\* earlier match of that line.
C4_Witness ==
    /\ op = "findNextMatch"
    /\ IsLineByLine
    /\ searchStart.column > 1
    /\ result # << >>
    /\ StartOf(result[1]) = searchStart
    /\ result[1].range.endColumn > result[1].range.startColumn
    /\ Unlimited(WholeBuffer(model)) # << >>
    /\ PositionLT(StartOf(Unlimited(WholeBuffer(model))[1]), searchStart)

\* ------------------------------------------------------------------------
\* C5: wraparound of findNextMatch.  If the buffer contains a match and
\* every match lies before fromPosition, findNextMatch returns the first
\* match of the buffer, in both strategies.  The matches of the buffer are
\* what findMatches returns for the whole buffer.
\* ------------------------------------------------------------------------
AllMatchesBefore(position) ==
    /\ Unlimited(WholeBuffer(model)) # << >>
    /\ \A i \in 1..Len(Unlimited(WholeBuffer(model))) :
          PositionLT(StartOf(Unlimited(WholeBuffer(model))[i]), position)

\* The claim as stated; the queries for a literal word are enough to refute
\* it.
C5_WrapsToFirstMatch ==
    (op = "findNextMatch" /\ ~searchParams.isRegex /\ AllMatchesBefore(searchStart))
        => result = <<Unlimited(WholeBuffer(model))[1]>>

\* The first pass of findNextMatch, from fromPosition to the end of the
\* buffer, accepts no match.
ForwardPassFindsNothing ==
    IF IsMultiline
    THEN ~Searcher_next(
              Searcher_reset(NewSearcher(Compiled.wordSeparators, Compiled.regex),
                             searchStart.column - 1),
              getValueInRange(model, RestOfBuffer(model, searchStart.lineNumber), LF)
          ).m.found
    ELSE FirstForward(searchStart.lineNumber, searchStart.column - 1) = << >>

\* As amended: the forward pass from fromPosition accepts no match (no
\* occurrence starts at or after fromPosition, not even one that overlaps an
\* earlier match) and the buffer contains a match.
C5_WrapsToFirstMatchWhenForwardPassFails ==
    (op = "findNextMatch" /\ Compiled.ok /\ ForwardPassFindsNothing
        /\ Unlimited(WholeBuffer(model)) # << >>)
        => result = <<Unlimited(WholeBuffer(model))[1]>>

C5_Witness ==
    /\ op = "findNextMatch"
    /\ IsMultiline
    /\ ForwardPassFindsNothing
    /\ searchStart.lineNumber = 3
    /\ result # << >>
    /\ result[1].range.startLineNumber = 1
    /\ result[1].range.endLineNumber = 2

\* ------------------------------------------------------------------------
\* C6: for a non-multiline query, findPreviousMatch from P returns the
\* rightmost match found in the part of P's line before P.column (a match
\* ending exactly at P is eligible); if there is none, the rightmost match
\* of the nearest preceding line that has one, going on cyclically from
\* line 1 to the last line and scanning P's own line in full at the end; it
\* returns null only if no line has a match.
\* ------------------------------------------------------------------------
\* The lines in the order the claim visits them after the part of P's line:
\* P's line - 1 down to 1, the last line down to P's line.
PreviousLineOrder(lineCount, startLineNumber) ==
    [i \in 1..lineCount |->
        IF i < startLineNumber THEN startLineNumber - i
        ELSE lineCount + startLineNumber - i]

\* The rightmost match of the first line of order[k..] that has a match.
RECURSIVE FirstBackward(_, _)
FirstBackward(order, k) ==
    IF k > Len(order) THEN << >>
    ELSE LET found == ScanLine(model.lines[order[k]], order[k], 0)
         IN IF found # << >> THEN <<found[Len(found)]>>
            ELSE FirstBackward(order, k + 1)

RightmostBefore(position) ==
    LET found == ScanLine(Substring(model.lines[position.lineNumber], 0,
                                    position.column - 1),
                          position.lineNumber, 0)
    IN IF found # << >> THEN <<found[Len(found)]>>
       ELSE FirstBackward(PreviousLineOrder(Len(model.lines), position.lineNumber), 1)

C6_PreviousIsRightmostBefore ==
    (op = "findPreviousMatch" /\ IsLineByLine) =>
        /\ result = RightmostBefore(searchStart)
        /\ ScanLine(Substring(model.lines[searchStart.lineNumber], 0,
                              searchStart.column - 1),
                    searchStart.lineNumber, 0) # << >>
              => /\ result # << >>
                 /\ result[1].range.startLineNumber = searchStart.lineNumber
                 /\ PositionLE(EndOf(result[1]), searchStart)
        /\ result = << >>
              => \A l \in 1..Len(model.lines) : ScanLine(model.lines[l], l, 0) = << >>

\* From (1, 1) the search wraps to the last line of the buffer, which has a
\* match that ends at the end of the line; line 1 has a match as well.
C6_Witness ==
    /\ op = "findPreviousMatch"
    /\ IsLineByLine
    /\ ~searchParams.isRegex
    /\ searchStart = Position(1, 1)
    /\ Len(model.lines) = 3
    /\ ScanLine(model.lines[1], 1, 0) # << >>
    /\ result # << >>
    /\ result[1].range.startLineNumber = 3
    /\ result[1].range.endColumn = Len(model.lines[3]) + 1
    /\ result[1].range.startColumn > 1

\* ------------------------------------------------------------------------
\* C7: if M is the match findNextMatch returns from P and a match exists
\* earlier in the buffer than M, findPreviousMatch from the end of M returns
\* a match that ends at or before the start of M.
\* ------------------------------------------------------------------------
PreviousFrom(position) ==
    findPreviousMatch(model, searchParams, position, captureMatches).result

HasEarlierMatch(match) ==
    \E i \in 1..Len(Unlimited(WholeBuffer(model))) :
        PositionLT(StartOf(Unlimited(WholeBuffer(model))[i]), StartOf(match))

\* The claim as stated.
C7_PreviousEndsBeforeNext ==
    (op = "findNextMatch" /\ result # << >> /\ HasEarlierMatch(result[1]))
        => /\ PreviousFrom(EndOf(result[1])) # << >>
           /\ PositionLE(EndOf(PreviousFrom(EndOf(result[1]))[1]), StartOf(result[1]))

\* As amended: the match found ends at or before the end of M; it may be M
\* itself, a match that ends exactly at the position searched from being
\* eligible.
C7_PreviousEndsAtOrBeforeEndOfNext ==
    (op = "findNextMatch" /\ result # << >> /\ HasEarlierMatch(result[1]))
        => /\ PreviousFrom(EndOf(result[1])) # << >>
           /\ PositionLE(EndOf(PreviousFrom(EndOf(result[1]))[1]), EndOf(result[1]))

C7_Witness ==
    /\ op = "findNextMatch"
    /\ result # << >>
    /\ HasEarlierMatch(result[1])
    /\ result[1].range.startLineNumber = 2
    /\ result[1].range.startColumn > 1
    /\ PreviousFrom(EndOf(result[1])) = result

\* ------------------------------------------------------------------------
\* C8: with a classifier, findMatches over whole lines returns exactly
\* those raw occurrences of the pattern (in left-to-right scan order, each
\* scan resuming after the previous raw occurrence, accepted or rejected)
\* whose two edges pass the word-boundary test: the left edge is the start
\* of the text, or the character before is not Regular, or the first
\* matched character is not Regular; the right edge likewise.  The pattern
\* is a literal word (not a regex, no line feed).
\* ------------------------------------------------------------------------
NotRegular(ch) == ch \in {Space, Tab} \/ ch \in SeqRange(searchParams.wordSeparators)

LeftEdgePasses(text, offset, len) ==
    \/ offset = 0
    \/ NotRegular(text[offset])
    \/ NotRegular(text[offset + 1])

RightEdgePasses(text, offset, len) ==
    \/ offset + len = Len(text)
    \/ NotRegular(text[offset + len + 1])
    \/ NotRegular(text[offset + len])

\* The offsets whose occurrence (of length len) passes at both edges, in
\* order.
RECURSIVE WordBounded(_, _, _)
WordBounded(offsets, text, len) ==
    IF offsets = << >> THEN << >>
    ELSE (IF LeftEdgePasses(text, Head(offsets), len)
             /\ RightEdgePasses(text, Head(offsets), len)
          THEN <<Head(offsets)>> ELSE << >>)
         \o WordBounded(Tail(offsets), text, len)

RawOccurrences(lineNumber) ==
    SubstringScan(model.lines[lineNumber], searchParams.searchString,
                  searchParams.matchCase, 0)

RECURSIVE WordBoundedRanges(_, _)
WordBoundedRanges(lineNumber, endLineNumber) ==
    IF lineNumber > endLineNumber THEN << >>
    ELSE OccurrenceRanges(
             WordBounded(RawOccurrences(lineNumber), model.lines[lineNumber],
                         Len(searchParams.searchString)),
             Len(searchParams.searchString), lineNumber, 0)
         \o WordBoundedRanges(lineNumber + 1, endLineNumber)

IsWholeLines(range) ==
    /\ range.startColumn = 1
    /\ range.endColumn = Len(model.lines[range.endLineNumber]) + 1

IsLiteralWordQuery ==
    /\ ~searchParams.isRegex
    /\ searchParams.searchString # << >>
    /\ LineFeed \notin SeqRange(searchParams.searchString)

C8_WordBoundedOccurrences ==
    (op = "findMatches" /\ HasClassifier /\ IsLiteralWordQuery
        /\ IsWholeLines(searchRange) /\ Len(result) < limitResultCount)
        => RangesOf(result)
              = WordBoundedRanges(searchRange.startLineNumber, searchRange.endLineNumber)

\* A line with a rejected occurrence followed by an accepted one.
C8_Witness ==
    /\ op = "findMatches"
    /\ HasClassifier
    /\ IsLiteralWordQuery
    /\ IsWholeLines(searchRange)
    /\ Len(result) < limitResultCount
    /\ searchRange.startLineNumber = searchRange.endLineNumber
    /\ Len(result) = 1
    /\ Len(RawOccurrences(searchRange.startLineNumber)) >= 2
    /\ result[1].range.startColumn > RawOccurrences(searchRange.startLineNumber)[1] + 1

\* ------------------------------------------------------------------------
\* C9: for a multiline query, the ranges findMatches, findNextMatch and
\* findPreviousMatch return on a buffer whose end-of-line is CRLF are those
\* they return on the buffer with the same lines and the end-of-line LF,
\* and the range of a match holds the text matched.
\* ------------------------------------------------------------------------
WithEOL(m, eol) == [m EXCEPT !.EOL = eol]

\* The result of the call of the state on the buffer m.
CallOn(m) ==
    CASE op = "findMatches" ->
            findMatches(m, searchParams, searchRange, captureMatches,
                        limitResultCount).result
      [] op = "findNextMatch" ->
            findNextMatch(m, searchParams, searchStart, captureMatches).result
      [] op = "findPreviousMatch" ->
            findPreviousMatch(m, searchParams, searchStart, captureMatches).result
      [] OTHER -> << >>

C9_SameRangesWithCRLF ==
    (op # "idle" /\ IsMultiline /\ getEOL(model) = CRLF) =>
        /\ RangesOf(result) = RangesOf(CallOn(WithEOL(model, LF)))
        /\ captureMatches =>
              \A i \in 1..Len(result) :
                  getValueInRange(model, result[i].range, LF) = result[i].matches[1]

\* A match that spans two lines, after a line feed.
C9_Witness ==
    /\ op = "findNextMatch"
    /\ IsMultiline
    /\ getEOL(model) = CRLF
    /\ result # << >>
    /\ result[1].range.startLineNumber = 2
    /\ result[1].range.endLineNumber = 3
    /\ searchStart.lineNumber = 2

\* ------------------------------------------------------------------------
\* C10: for every limit L >= 1, findMatches returns exactly the first
\* min(L, n) elements of the n elements it returns for the same inputs with
\* a limit that is never reached.
\* ------------------------------------------------------------------------
C10_LimitedIsPrefix ==
    (op = "findMatches" /\ limitResultCount >= 1) =>
        result = SubSeq(Unlimited(searchRange), 1,
                        Min2(limitResultCount, Len(Unlimited(searchRange))))

\* The limit cuts the result short, in the middle of the range.
C10_Witness ==
    /\ op = "findMatches"
    /\ limitResultCount = 2
    /\ Len(result) = 2
    /\ Len(Unlimited(searchRange)) > 2
    /\ searchRange.endLineNumber - searchRange.startLineNumber = 2

\* ------------------------------------------------------------------------
\* The calls run loop iteration by loop iteration.  pc is "next" when the
\* call is inside Searcher.next, "returned" when Searcher.next has returned
\* frame.m to the loop that called it, "indexOf" in the indexOf loop of the
\* literal fast path, and "done" when the call has returned (its value is
\* in result).
\* ------------------------------------------------------------------------

\* An iteration of Searcher.next that goes on with the loop, instead of
\* returning null, when the regex reports the same match again.
Searcher_nextIteration_RepeatGoesOn(s, t) ==
    IF s.prevMatchStartIndex + s.prevMatchLength = Len(t)
    THEN [returns |-> TRUE, m |-> NoMatch, searcher |-> s]
    ELSE LET r == RegExpExec(s.searchRegex, t, s.lastIndex)
             s1 == [s EXCEPT !.lastIndex = r.lastIndex]
             s2 == [s1 EXCEPT !.prevMatchStartIndex = r.index,
                              !.prevMatchLength = r.len]
         IN IF ~r.found THEN [returns |-> TRUE, m |-> NoMatch, searcher |-> s1]
            ELSE IF r.index = s.prevMatchStartIndex /\ r.len = s.prevMatchLength
                 THEN [returns |-> FALSE, m |-> NoMatch, searcher |-> s1]
            ELSE [returns |-> s.wordSeparators = << >>
                              \/ isValidMatch(s.wordSeparators, t, Len(t),
                                              r.index, r.len),
                  m |-> [found |-> TRUE, index |-> r.index, len |-> r.len],
                  searcher |-> s2]

\* One iteration of the do-while loop of Searcher.next: whether the
\* iteration returns, the value it returns, and the searcher after it.
Searcher_nextIteration(s, t) ==
    IF s.prevMatchStartIndex + s.prevMatchLength = Len(t)
    THEN [returns |-> TRUE, m |-> NoMatch, searcher |-> s]
    ELSE LET r == RegExpExec(s.searchRegex, t, s.lastIndex)
             s1 == [s EXCEPT !.lastIndex = r.lastIndex]
             s2 == [s1 EXCEPT !.prevMatchStartIndex = r.index,
                              !.prevMatchLength = r.len]
         IN IF ~r.found THEN [returns |-> TRUE, m |-> NoMatch, searcher |-> s1]
            ELSE IF r.index = s.prevMatchStartIndex /\ r.len = s.prevMatchLength
                 THEN [returns |-> TRUE, m |-> NoMatch, searcher |-> s1]
            ELSE [returns |-> s.wordSeparators = << >>
                              \/ isValidMatch(s.wordSeparators, t, Len(t),
                                              r.index, r.len),
                  m |-> [found |-> TRUE, index |-> r.index, len |-> r.len],
                  searcher |-> s2]

\* The searcher the call creates from its SearchData.
CallSearcher == NewSearcher(Compiled.wordSeparators, Compiled.regex)

\* The part of line ln that _doFindMatchesLineByLine hands to
\* _findMatchesInLine for the range r.
TextOfRangeLine(r, ln) ==
    IF r.startLineNumber = r.endLineNumber
    THEN Substring(getLineContent(model, ln), r.startColumn - 1, r.endColumn - 1)
    ELSE IF ln = r.startLineNumber
    THEN Substring(getLineContent(model, ln), r.startColumn - 1,
                   Len(getLineContent(model, ln)))
    ELSE IF ln = r.endLineNumber
    THEN Substring(getLineContent(model, ln), 0, r.endColumn - 1)
    ELSE getLineContent(model, ln)

\* The locals at the entry of _findMatchesInLine for line ln of the range r.
EnterFindMatchesInLine(f, r, ln) ==
    [f EXCEPT !.text = TextOfRangeLine(r, ln),
              !.lineNumber = ln,
              !.deltaOffset = IF ln = r.startLineNumber THEN r.startColumn - 1 ELSE 0,
              !.searcher = Searcher_reset(CallSearcher, 0),
              !.lastMatchIndex = -Len(Compiled.simpleSearch)]

\* The loop _findMatchesInLine runs: the indexOf loop or the regex loop.
FindMatchesInLinePath(c) ==
    IF ~c /\ Compiled.simpleSearch # << >> THEN "indexOf" ELSE "next"

\* The locals at the start of a scan of the multiline text of the range r,
\* the searcher reset to lastIndex.
EnterMultiline(f, r, lastIndex, pass) ==
    [f EXCEPT !.text = getValueInRange(model, r, LF),
              !.deltaOffset = getOffsetAt(model, getStartPosition(r)),
              !.searcher = Searcher_reset(CallSearcher, lastIndex),
              !.i = pass]

\* The locals at the start of the scan of a whole line (or, with cut, of the
\* line up to a column), the searcher reset to lastIndex.
EnterLine(f, ln, cut, lastIndex, count) ==
    [f EXCEPT !.text = Substring(getLineContent(model, ln), 0, cut),
              !.lineNumber = ln,
              !.searcher = Searcher_reset(CallSearcher, lastIndex),
              !.i = count]

\* The call returns value.
Return(value) ==
    /\ pc' = "done"
    /\ result' = value
    /\ UNCHANGED frame

\* The ranges from the start of the buffer and the ranges up to its end.
EdgeRanges(b) ==
    {r \in Ranges(b) : \/ getStartPosition(r) = Position(1, 1)
                        \/ getEndPosition(r) = getEndPosition(WholeBuffer(b))}

\* findMatches is called (lines 132-142 and the entry of the strategy).
FindMatchesStart ==
    /\ pc = "idle"
    /\ \E r \in EdgeRanges(model), c \in BOOLEAN, l \in Limits :
          /\ op' = "findMatches"
          /\ searchRange' = r
          /\ captureMatches' = c
          /\ limitResultCount' = l
          /\ IF ~Compiled.ok THEN Return(<< >>)
             ELSE IF Compiled.regex.multiline
             THEN /\ pc' = "next"
                  /\ frame' = EnterMultiline(frame, r, 0, 0)
                  /\ UNCHANGED result
             ELSE /\ pc' = FindMatchesInLinePath(c)
                  /\ frame' = EnterFindMatchesInLine(frame, r, r.startLineNumber)
                  /\ UNCHANGED result
    /\ UNCHANGED <<model, searchParams, searchStart, scans, steps>>

\* findNextMatch is called (lines 268-280 and the entry of the strategy).
FindNextMatchStart ==
    /\ pc = "idle"
    /\ \E p \in Positions(model), c \in BOOLEAN :
          /\ op' = "findNextMatch"
          /\ searchStart' = p
          /\ captureMatches' = c
          /\ IF ~Compiled.ok THEN Return(<< >>)
             ELSE IF Compiled.regex.multiline
             THEN /\ pc' = "next"
                  /\ frame' = EnterMultiline(frame, RestOfBuffer(model, p.lineNumber),
                                             p.column - 1, 0)
                  /\ UNCHANGED result
             ELSE /\ pc' = "next"
                  /\ frame' = EnterLine(frame, p.lineNumber,
                                        Len(getLineContent(model, p.lineNumber)),
                                        p.column - 1, 0)
                  /\ UNCHANGED result
    /\ UNCHANGED <<model, searchParams, searchRange, limitResultCount, scans, steps>>

\* findPreviousMatch is called (lines 345-357 and the entry of the strategy).
FindPreviousMatchStart ==
    /\ pc = "idle"
    /\ \E p \in Positions(model), c \in BOOLEAN :
          /\ op' = "findPreviousMatch"
          /\ searchStart' = p
          /\ captureMatches' = c
          /\ IF ~Compiled.ok THEN Return(<< >>)
             ELSE IF Compiled.regex.multiline
             THEN /\ pc' = "next"
                  /\ frame' = EnterMultiline(frame,
                                  Range(1, 1, p.lineNumber, p.column), 0, 0)
                  /\ UNCHANGED result
             ELSE /\ pc' = "next"
                  /\ frame' = EnterLine(frame, p.lineNumber, p.column - 1, 0, 0)
                  /\ UNCHANGED result
    /\ UNCHANGED <<model, searchParams, searchRange, limitResultCount, scans, steps>>

\* The bound on the loop iterations of a call.
MaxSteps == 24

\* The call makes one more loop iteration.
Iterate ==
    /\ steps < MaxSteps
    /\ steps' = steps + 1

callArgs == <<model, searchParams, op, searchRange, searchStart, captureMatches,
              limitResultCount, scans>>

\* Searcher.next goes on with the locals of the iteration it.
AfterIteration(it) ==
    /\ pc' = IF it.returns THEN "returned" ELSE "next"
    /\ frame' = [frame EXCEPT !.m = it.m, !.searcher = it.searcher]

\* One iteration of the do-while loop of Searcher.next.
SearcherNextIteration ==
    /\ pc = "next"
    /\ Iterate
    /\ AfterIteration(Searcher_nextIteration(frame.searcher, frame.text))
    /\ UNCHANGED callVars

\* The loop over the lines of _doFindMatchesLineByLine once
\* _findMatchesInLine has returned with the matches res.
AfterFindMatchesInLine(res) ==
    IF frame.lineNumber = searchRange.endLineNumber \/ Len(res) >= limitResultCount
    THEN Return(res)
    ELSE /\ pc' = FindMatchesInLinePath(captureMatches)
         /\ frame' = EnterFindMatchesInLine([frame EXCEPT !.result = res],
                                            searchRange, frame.lineNumber + 1)
         /\ UNCHANGED result

\* _findMatchesInLine has stored a match found by loop: it returns at the
\* limit and goes on with the loop otherwise.
StoreInLine(loop, res, cursor) ==
    IF Len(res) >= limitResultCount THEN AfterFindMatchesInLine(res)
    ELSE /\ pc' = loop
         /\ frame' = [frame EXCEPT !.result = res, !.lastMatchIndex = cursor]
         /\ UNCHANGED result

\* One iteration of the do-while loop of _findMatchesInLine (the regex
\* path), from the return of searcher.next.
FindMatchesInLineIteration ==
    /\ pc = "returned"
    /\ Iterate
    /\ op = "findMatches"
    /\ IsLineByLine
    /\ IF ~frame.m.found THEN AfterFindMatchesInLine(frame.result)
       ELSE StoreInLine("next",
                Append(frame.result,
                       LineMatch(frame.text, frame.lineNumber, frame.deltaOffset,
                                 frame.m, captureMatches)),
                frame.lastMatchIndex)
    /\ UNCHANGED callArgs

\* The indexOf loop of _findMatchesInLine once indexOf has returned idx.
AfterIndexOf(idx) ==
    IF idx = -1 THEN AfterFindMatchesInLine(frame.result)
    ELSE IF Compiled.wordSeparators = << >>
            \/ isValidMatch(Compiled.wordSeparators, frame.text, Len(frame.text),
                            idx, Len(Compiled.simpleSearch))
    THEN StoreInLine("indexOf",
             Append(frame.result,
                    FindMatch(Range(frame.lineNumber, idx + 1 + frame.deltaOffset,
                                    frame.lineNumber,
                                    idx + 1 + Len(Compiled.simpleSearch)
                                        + frame.deltaOffset),
                              << >>)),
             idx)
    ELSE /\ pc' = "indexOf"
         /\ frame' = [frame EXCEPT !.lastMatchIndex = idx]
         /\ UNCHANGED result

\* One iteration of the indexOf loop of _findMatchesInLine (the fast path).
SimpleSearchIteration ==
    /\ pc = "indexOf"
    /\ Iterate
    /\ AfterIndexOf(indexOf(frame.text, Compiled.simpleSearch,
                            frame.lastMatchIndex + Len(Compiled.simpleSearch)))
    /\ UNCHANGED callArgs

\* The limit _doFindMatchesMultiline is called with.
MultilineLimit ==
    IF op = "findMatches" THEN limitResultCount ELSE 10 * LIMIT_FIND_COUNT

\* _doFindMatchesMultiline has returned the matches res to findMatches or to
\* _doFindPreviousMatchMultiline, which returns the last one, or scans once
\* more up to the end of the buffer, or returns null.
AfterFindMatchesMultiline(res) ==
    IF op = "findMatches" THEN Return(res)
    ELSE IF Len(res) > 0 THEN Return(<<res[Len(res)]>>)
    ELSE IF frame.i = 0
            /\ (\/ searchStart.lineNumber # getLineCount(model)
                \/ searchStart.column # getLineMaxColumn(model, getLineCount(model)))
    THEN /\ pc' = "next"
         /\ frame' = EnterMultiline(frame, RestOfBuffer(model, 1), 0, 1)
         /\ UNCHANGED result
    ELSE Return(<< >>)

\* _doFindMatchesMultiline has stored a match.
StoreMultiline(res) ==
    IF Len(res) >= MultilineLimit THEN AfterFindMatchesMultiline(res)
    ELSE /\ pc' = "next"
         /\ frame' = [frame EXCEPT !.result = res]
         /\ UNCHANGED result

\* One iteration of the while loop of _doFindMatchesMultiline, from the
\* return of searcher.next.
MultilineIteration ==
    /\ pc = "returned"
    /\ Iterate
    /\ op \in {"findMatches", "findPreviousMatch"}
    /\ IsMultiline
    /\ IF ~frame.m.found THEN AfterFindMatchesMultiline(frame.result)
       ELSE StoreMultiline(
                Append(frame.result,
                       MultilineMatch(model, frame.deltaOffset, frame.text,
                                      frame.m, captureMatches)))
    /\ UNCHANGED callArgs

\* The scan of the next line by a loop over the lines: the line, whole, from
\* its start, the loop's counter advanced.
EnterLoopLine(lineIndex) ==
    /\ pc' = "next"
    /\ frame' = EnterLine([frame EXCEPT !.result = << >>], lineIndex + 1,
                          Len(getLineContent(model, lineIndex + 1)), 0, frame.i + 1)
    /\ UNCHANGED result

\* _findFirstMatchInLine from the return of searcher.next, and the for loop
\* of _doFindNextMatchLineByLine.
FindFirstMatchInLineReturn ==
    /\ pc = "returned"
    /\ Iterate
    /\ op = "findNextMatch"
    /\ IsLineByLine
    /\ IF frame.m.found
       THEN Return(OptionalMatch(frame.text, frame.lineNumber, frame.m, captureMatches))
       ELSE IF frame.i + 1 > getLineCount(model) THEN Return(<< >>)
       ELSE EnterLoopLine((searchStart.lineNumber + (frame.i + 1) - 1)
                              % getLineCount(model))
    /\ UNCHANGED callArgs

\* _doFindNextMatchMultiline from the return of searcher.next: the match,
\* or one more scan from (1,1), or null.
FindNextMatchMultilineReturn ==
    /\ pc = "returned"
    /\ Iterate
    /\ op = "findNextMatch"
    /\ IsMultiline
    /\ IF frame.m.found
       THEN Return(<<MultilineMatch(model, frame.deltaOffset, frame.text,
                                    frame.m, captureMatches)>>)
       ELSE IF frame.i = 0 /\ (searchStart.lineNumber # 1 \/ searchStart.column # 1)
       THEN /\ pc' = "next"
            /\ frame' = EnterMultiline(frame, RestOfBuffer(model, 1), 0, 1)
            /\ UNCHANGED result
       ELSE Return(<< >>)
    /\ UNCHANGED callArgs

\* One iteration of the while loop of _findLastMatchInLine, from the return
\* of searcher.next, and the for loop of _doFindPreviousMatchLineByLine.
FindLastMatchInLineIteration ==
    /\ pc = "returned"
    /\ Iterate
    /\ op = "findPreviousMatch"
    /\ IsLineByLine
    /\ IF frame.m.found
       THEN /\ pc' = "next"
            /\ frame' = [frame EXCEPT !.result =
                            OptionalMatch(frame.text, frame.lineNumber, frame.m,
                                          captureMatches)]
            /\ UNCHANGED result
       ELSE IF frame.result # << >> THEN Return(frame.result)
       ELSE IF frame.i + 1 > getLineCount(model) THEN Return(<< >>)
       ELSE EnterLoopLine((getLineCount(model) + searchStart.lineNumber
                               - (frame.i + 1) - 1) % getLineCount(model))
    /\ UNCHANGED callArgs

\* The iterations of a call that has started.
Running ==
    \/ SearcherNextIteration
    \/ FindMatchesInLineIteration
    \/ SimpleSearchIteration
    \/ MultilineIteration
    \/ FindFirstMatchInLineReturn
    \/ FindNextMatchMultilineReturn
    \/ FindLastMatchInLineIteration

StepNext ==
    \/ FindMatchesStart
    \/ FindNextMatchStart
    \/ FindPreviousMatchStart
    \/ Running

\* A call is running: one of the iterations of Running can be taken.
IsRunning == pc \in {"next", "returned", "indexOf"} /\ steps < MaxSteps

\* A call that has started runs on (the code is sequential and nothing
\* suspends it): weak fairness of Running, WF_vars(Running), with IsRunning
\* written for ENABLED <<Running>>_vars (every iteration changes steps, and
\* each pc of a running call has an iteration).
RunsOn == []<>(~IsRunning) \/ []<><<Running>>_vars

StepSpec == Init /\ [][StepNext]_vars /\ RunsOn

\* What the call returns when it is run as a whole.
WholeCall ==
    IF op = "findMatches"
    THEN findMatches(model, searchParams, searchRange, captureMatches,
                     limitResultCount).result
    ELSE IF op = "findNextMatch"
    THEN findNextMatch(model, searchParams, searchStart, captureMatches).result
    ELSE findPreviousMatch(model, searchParams, searchStart, captureMatches).result

\* Run iteration by iteration, a call returns what it returns as a whole.
StepwiseReturnsWholeCall ==
    pc = "done" => result = WholeCall

\* ------------------------------------------------------------------------
\* C11: every call of findMatches, findNextMatch and findPreviousMatch
\* terminates, for every pattern: a call that has started returns after
\* finitely many loop iterations, also when the pattern matches the empty
\* string or when the word-boundary test rejects every occurrence.
\* ------------------------------------------------------------------------
C11_EveryCallTerminates ==
    (pc # "idle") ~> (pc = "done")

\* A call without a limit has returned a match of a pattern that matches the
\* empty string.
C11_Witness ==
    /\ pc = "done"
    /\ op = "findPreviousMatch"
    /\ searchParams.searchString = <<"a", "*">>
    /\ result # << >>
    /\ result[1].range.startColumn = result[1].range.endColumn

\* ------------------------------------------------------------------------
\* C12: the wraparound retry happens at most once per call.  For a multiline
\* query findNextMatch scans the text from the line of fromPosition and then
\* at most once more the whole buffer from (1,1); findPreviousMatch scans up
\* to fromPosition and then at most once more up to the end of the buffer;
\* there is no second pass when the starting position already is (1,1)
\* (respectively the end of the buffer), and a call that has made its passes
\* without a match returns null.  In the line-by-line strategy every line is
\* scanned at most once, the starting line at most twice, and a call that
\* returns null has scanned every line once and the starting line twice.
\* ------------------------------------------------------------------------
EndOfBuffer(m) == getEndPosition(WholeBuffer(m))

\* The number of scans of the call that lie on a line.
ScansOfLine(lineNumber) ==
    Cardinality({k \in DOMAIN scans : scans[k].startLineNumber = lineNumber
                                      /\ scans[k].endLineNumber = lineNumber})

MultilineRetriesAtMostOnce ==
    LET edge == IF op = "findNextMatch" THEN Position(1, 1) ELSE EndOfBuffer(model)
        firstPass == IF op = "findNextMatch"
                     THEN RestOfBuffer(model, searchStart.lineNumber)
                     ELSE Range(1, 1, searchStart.lineNumber, searchStart.column)
    IN /\ Len(scans) \in 1..2
       /\ scans[1] = firstPass
       /\ Len(scans) = 2 => (scans[2] = WholeBuffer(model) /\ searchStart # edge)
       /\ searchStart = edge => Len(scans) = 1
       /\ (Len(scans) = 1 /\ searchStart # edge) => result # << >>

LineByLineScansEachLineOnce ==
    /\ \A ln \in 1..getLineCount(model) :
          ScansOfLine(ln) <= (IF ln = searchStart.lineNumber THEN 2 ELSE 1)
    /\ Len(scans) <= getLineCount(model) + 1
    /\ scans[1].startLineNumber = searchStart.lineNumber
    /\ result = << >> =>
          \A ln \in 1..getLineCount(model) :
             ScansOfLine(ln) = (IF ln = searchStart.lineNumber THEN 2 ELSE 1)

C12_RetryAtMostOnce ==
    (op \in {"findNextMatch", "findPreviousMatch"} /\ Compiled.ok) =>
        IF IsMultiline THEN MultilineRetriesAtMostOnce
        ELSE LineByLineScansEachLineOnce

\* findNextMatch of a multiline query from a position after (1,1) has made
\* its two passes and returns null.
C12_Witness ==
    /\ op = "findNextMatch"
    /\ IsMultiline
    /\ searchStart # Position(1, 1)
    /\ Len(scans) = 2
    /\ result = << >>

\* findNextMatch of a line-by-line query returns null after the scan of the
\* starting line from fromPosition and one scan of every line of the buffer.
C12_LineByLineWitness ==
    /\ op = "findNextMatch"
    /\ IsLineByLine
    /\ getLineCount(model) = 3
    /\ searchStart.lineNumber = 2
    /\ Len(scans) = 4
    /\ result = << >>

\* ------------------------------------------------------------------------
\* Long buffers: one line of a's, shorter and longer than the limit
\* _doFindPreviousMatchMultiline passes to _doFindMatchesMultiline, searched
\* backwards by a regex the compiler classifies as multiline (a\n*, which
\* matches every a of the line).
\* ------------------------------------------------------------------------
MaxShortLine == 40

LongLengths ==
    (1..MaxShortLine) \cup {10 * LIMIT_FIND_COUNT, 10 * LIMIT_FIND_COUNT + 1}

LongModels ==
    {[lines |-> <<[i \in 1..n |-> "a"]>>, EOL |-> LF] : n \in LongLengths}

LongQuery ==
    SearchParams(<<"a", Backslash, "n", "*">>, TRUE, TRUE, NoSeparators)

LongInit ==
    /\ pc = "idle"
    /\ frame = NoFrame
    /\ steps = 0
    /\ model \in LongModels
    /\ searchParams = LongQuery
    /\ op = "idle"
    /\ searchRange = Range(1, 1, 1, 1)
    /\ searchStart = Position(1, 1)
    /\ captureMatches = FALSE
    /\ limitResultCount = 0
    /\ result = << >>
    /\ scans = << >>

\* findPreviousMatch from the start or from the end of the buffer.
FindPreviousMatchLongCall ==
    /\ op = "idle"
    /\ \E p \in {Position(1, 1), getEndPosition(RestOfBuffer(model, 1))},
          c \in BOOLEAN :
          LET f == findPreviousMatch(model, searchParams, p, c) IN
          /\ op' = "findPreviousMatch"
          /\ searchStart' = p
          /\ captureMatches' = c
          /\ result' = f.result
          /\ scans' = f.scans
    /\ UNCHANGED <<model, searchParams, searchRange, limitResultCount>>
    /\ UNCHANGED locals

LongNext == FindPreviousMatchLongCall

LongSpec == LongInit /\ [][LongNext]_vars

\* ------------------------------------------------------------------------
\* C13: for a multiline query, findPreviousMatch from position P returns the
\* true last match of the scan of the range from (1,1) to P, whatever the
\* number of matches in that range (also beyond 10 x 999 matches): the
\* matcher, continued after the returned match, finds no further match in
\* the text of the range; and the whole buffer is scanned only when the
\* range from (1,1) to P has no match.
\* ------------------------------------------------------------------------
\* The offset of a position in the text of a range that contains it.
TextOffsetIn(range, position) ==
    Len(getValueInRange(model,
            Range(range.startLineNumber, range.startColumn,
                  position.lineNumber, position.column), LF))

\* The searcher of the call as it is when it has returned match of text.
SearcherAfter(range, match) ==
    [CallSearcher EXCEPT
        !.lastIndex = TextOffsetIn(range, EndOf(match)),
        !.prevMatchStartIndex = TextOffsetIn(range, StartOf(match)),
        !.prevMatchLength = TextOffsetIn(range, EndOf(match))
                                - TextOffsetIn(range, StartOf(match))]

\* The scan of the text of range has no match after match.
IsLastMatchOf(range, match) ==
    ~Searcher_next(SearcherAfter(range, match),
                   getValueInRange(model, range, LF)).m.found

RangeHasMatch(range) ==
    Searcher_next(Searcher_reset(CallSearcher, 0),
                  getValueInRange(model, range, LF)).m.found

C13_PreviousIsTrueLastMatch ==
    (op = "findPreviousMatch" /\ IsMultiline) =>
        LET upToStart == Range(1, 1, searchStart.lineNumber, searchStart.column)
        IN IF RangeHasMatch(upToStart)
           THEN /\ scans = <<upToStart>>
                /\ Len(result) = 1
                /\ IsLastMatchOf(upToStart, result[1])
           ELSE /\ scans[1] = upToStart
                /\ Len(scans) = 2 => scans[2] = WholeBuffer(model)

\* ------------------------------------------------------------------------
\* C14: fast-path equivalence.  For every non-regex, non-multiline query for
\* which the literal fast path is set, and every buffer, search range, limit
\* and separator set, findMatches without captures (the indexOf loop)
\* returns the same sequence of ranges as findMatches with captures (the
\* regex loop through the searcher).
\* ------------------------------------------------------------------------
HasSimpleSearch == Compiled.ok /\ Compiled.simpleSearch # << >>

C14_FastPathEquivalence ==
    (op = "findMatches" /\ HasSimpleSearch /\ ~captureMatches) =>
        RangesOf(result)
            = RangesOf(findMatches(model, searchParams, searchRange, TRUE,
                                   limitResultCount).result)

\* The indexOf loop has skipped an occurrence the word-boundary test rejects
\* and has returned a later one.
C14_Witness ==
    /\ op = "findMatches"
    /\ HasSimpleSearch
    /\ ~captureMatches
    /\ HasClassifier
    /\ model.lines = <<<<"A", "a", " ", "a">>>>
    /\ searchParams.searchString = <<"a">>
    /\ searchRange = Range(1, 1, 1, 5)
    /\ RangesOf(result) = <<Range(1, 4, 1, 5)>>

\* The fast path of a query that ignores case: the space.
C14_CaselessWitness ==
    /\ op = "findMatches"
    /\ HasSimpleSearch
    /\ ~captureMatches
    /\ ~searchParams.matchCase
    /\ Len(result) = 1

\* ------------------------------------------------------------------------
\* The search request compiler on its own: parseSearchRequest applied to
\* every query whose pattern has at most MaxPattern characters of
\* PatternChars.
\* ------------------------------------------------------------------------
MaxPattern == 3

PatternChars == {"a", "A", Space, Backslash, "n", "r", LineFeed, "*", "("}

Patterns == UNION {[1..n -> PatternChars] : n \in 0..MaxPattern}

CompileQueries ==
    {SearchParams(s, r, c, w) :
        s \in Patterns, r \in BOOLEAN, c \in BOOLEAN, w \in {NoSeparators, Separators}}

CompileInit ==
    /\ pc = "idle"
    /\ frame = NoFrame
    /\ steps = 0
    /\ model = [lines |-> << << >> >>, EOL |-> LF]
    /\ searchParams \in CompileQueries
    /\ op = "idle"
    /\ searchRange = Range(1, 1, 1, 1)
    /\ searchStart = Position(1, 1)
    /\ captureMatches = FALSE
    /\ limitResultCount = 0
    /\ result = << >>
    /\ scans = << >>

\* The query is compiled; result holds the SearchData.
ParseSearchRequestCall ==
    /\ op = "idle"
    /\ op' = "parseSearchRequest"
    /\ result' = <<parseSearchRequest(searchParams)>>
    /\ UNCHANGED <<model, searchParams, searchRange, searchStart, captureMatches,
                   limitResultCount, scans>>
    /\ UNCHANGED locals

CompileNext == ParseSearchRequestCall

CompileSpec == CompileInit /\ [][CompileNext]_vars

\* ------------------------------------------------------------------------
\* C15: the compiler sets the literal fast path to the original pattern
\* exactly when isRegex is false, the pattern is not multiline, and matchCase
\* is true or the pattern's lower-case and upper-case forms are identical;
\* in every other case the fast path is null and _findMatchesInLine scans
\* through the regex.  (An empty pattern has no SearchData at all.)
\* ------------------------------------------------------------------------
FastPathExpected ==
    /\ ~searchParams.isRegex
    /\ LineFeed \notin SeqRange(searchParams.searchString)
    /\ \/ searchParams.matchCase
       \/ toLowerCase(searchParams.searchString) = toUpperCase(searchParams.searchString)

C15_SimpleSearchRule ==
    (op = "parseSearchRequest" /\ searchParams.searchString # << >>) =>
        /\ result[1].simpleSearch
              = (IF FastPathExpected THEN searchParams.searchString ELSE << >>)
        /\ FastPathExpected => result[1].ok
        /\ FindMatchesInLinePath(FALSE)
              = (IF FastPathExpected THEN "indexOf" ELSE "next")

\* The caseless pattern of a space and a backslash compiled without
\* matchCase has the fast path.
C15_Witness ==
    /\ op = "parseSearchRequest"
    /\ searchParams.searchString = <<Space, Backslash>>
    /\ ~searchParams.isRegex
    /\ ~searchParams.matchCase
    /\ result[1].simpleSearch = <<Space, Backslash>>

\* A pattern with a letter compiled without matchCase has none.
C15_CasedWitness ==
    /\ op = "parseSearchRequest"
    /\ searchParams.searchString = <<Space, "a">>
    /\ ~searchParams.isRegex
    /\ ~searchParams.matchCase
    /\ result[1].ok
    /\ result[1].simpleSearch = << >>

\* ------------------------------------------------------------------------
\* C16: the compiler classifies a regex query as multiline iff, reading the
\* pattern left to right and consuming each backslash together with the
\* character after it, some backslash is immediately followed by n or r (\n
\* and \r are multiline, \\n is not, a trailing lone backslash is not); it
\* classifies a non-regex query as multiline iff the pattern contains a
\* line feed.
\* ------------------------------------------------------------------------
\* The number of backslashes in a row that end just before offset i.
RECURSIVE BackslashesBefore(_, _)
BackslashesBefore(s, i) ==
    IF i > 1 /\ s[i - 1] = Backslash THEN 1 + BackslashesBefore(s, i - 1) ELSE 0

\* The backslashes that start an escape: those that an even number of
\* backslashes precede.
EscapeStarts(s) ==
    {i \in 1..Len(s) : s[i] = Backslash /\ BackslashesBefore(s, i) % 2 = 0}

MultilineExpected ==
    IF searchParams.isRegex
    THEN \E i \in EscapeStarts(searchParams.searchString) :
            /\ i + 1 <= Len(searchParams.searchString)
            /\ searchParams.searchString[i + 1] \in {"n", "r"}
    ELSE LineFeed \in SeqRange(searchParams.searchString)

C16_MultilineClassification ==
    op = "parseSearchRequest" =>
        /\ searchParams.isRegex =>
              isMultilineRegexSource(searchParams.searchString) = MultilineExpected
        /\ result[1].ok => result[1].regex.multiline = MultilineExpected

\* The regex \\n (an escaped backslash, then n) compiles and is not
\* multiline.
C16_Witness ==
    /\ op = "parseSearchRequest"
    /\ searchParams.searchString = <<Backslash, Backslash, "n">>
    /\ searchParams.isRegex
    /\ result[1].ok
    /\ ~result[1].regex.multiline

\* The regex a\r compiles and is multiline.
C16_CarriageReturnWitness ==
    /\ op = "parseSearchRequest"
    /\ searchParams.searchString = <<"a", Backslash, "r">>
    /\ searchParams.isRegex
    /\ result[1].ok
    /\ result[1].regex.multiline

\* ------------------------------------------------------------------------
\* C17: every range returned by findMatches has 1-based line and column
\* numbers, satisfies start <= end, and lies inside searchRange (start >=
\* searchRange start and end <= searchRange end); offsets found in the
\* truncated first line of the range are shifted by startColumn - 1, so that
\* the range is where the matched text is in the buffer: the text of the
\* buffer at the range is the matched substring (the captured group 0, or
\* the literal of the fast path).
\* ------------------------------------------------------------------------
RangeIsInside(r, outer) ==
    /\ r.startLineNumber >= 1
    /\ r.startColumn >= 1
    /\ r.endLineNumber >= 1
    /\ r.endColumn >= 1
    /\ PositionLE(getStartPosition(r), getEndPosition(r))
    /\ PositionLE(getStartPosition(outer), getStartPosition(r))
    /\ PositionLE(getEndPosition(r), getEndPosition(outer))

RangeIsWhereTheMatchIs(match) ==
    /\ captureMatches => getValueInRange(model, match.range, LF) = match.matches[1]
    /\ (~captureMatches /\ HasSimpleSearch) =>
          getValueInRange(model, match.range, LF) = searchParams.searchString

C17_RangesInsideSearchRange ==
    op = "findMatches" =>
        \A k \in 1..Len(result) :
            /\ RangeIsInside(result[k].range, searchRange)
            /\ RangeIsWhereTheMatchIs(result[k])

\* A match found at offset 0 of a first line cut at its second column.
C17_Witness ==
    /\ op = "findMatches"
    /\ IsLineByLine
    /\ searchRange.startColumn = 2
    /\ searchRange.startLineNumber < searchRange.endLineNumber
    /\ Len(result) = 2
    /\ StartOf(result[1]) = getStartPosition(searchRange)

\* A match across the line break of a CRLF buffer in a range that starts
\* after the first line.
C17_MultilineWitness ==
    /\ op = "findMatches"
    /\ IsMultiline
    /\ model.EOL = CRLF
    /\ searchRange.startLineNumber = 2
    /\ Len(result) = 1
    /\ result[1].range.endLineNumber = 3

\* ------------------------------------------------------------------------
\* C18: every match returned by findMatches, findNextMatch and
\* findPreviousMatch carries a capture sequence iff captures were requested;
\* when present its element 0 is the full matched substring (its length
\* equals the column span of a single-line range), and when captures are not
\* requested the capture field is null.
\* ------------------------------------------------------------------------
IsSingleLine(r) == r.startLineNumber = r.endLineNumber

CapturesAsRequested(match) ==
    IF captureMatches
    THEN /\ Len(match.matches) >= 1
         /\ match.matches[1] = getValueInRange(model, match.range, LF)
         /\ IsSingleLine(match.range) =>
               Len(match.matches[1]) = match.range.endColumn - match.range.startColumn
    ELSE match.matches = << >>

C18_CapturesIffRequested ==
    op \in {"findMatches", "findNextMatch", "findPreviousMatch"} =>
        \A k \in 1..Len(result) : CapturesAsRequested(result[k])

\* findPreviousMatch with captures has returned a match of two characters.
C18_Witness ==
    /\ op = "findPreviousMatch"
    /\ captureMatches
    /\ result # << >>
    /\ result[1].matches = << <<"a", "a">> >>

\* findNextMatch without captures has returned a match of a regex.
C18_NullWitness ==
    /\ op = "findNextMatch"
    /\ ~captureMatches
    /\ searchParams.isRegex
    /\ result # << >>
    /\ result[1].matches = << >>

\* ------------------------------------------------------------------------
\* The word-boundary test on its own: isValidMatch applied, with a
\* classifier, to every match (start offset and length) of every text of at
\* most MaxText characters of TextChars.  The text and the match are in the
\* locals (frame.text, frame.m), the separators in the query.
\* ------------------------------------------------------------------------
MaxText == 4

TextChars == {"a", "-", Space}

Texts == UNION {[1..n -> TextChars] : n \in 0..MaxText}

\* The matches of a text: a start offset and a length inside the text.
MatchesOf(text) ==
    {m \in [found : {TRUE}, index : 0..Len(text), len : 0..Len(text)] :
        m.index + m.len <= Len(text)}

BoundaryInit ==
    /\ pc = "idle"
    /\ steps = 0
    /\ model = [lines |-> << << >> >>, EOL |-> LF]
    /\ \E w \in {<<"-">>, <<"a">>} :
          searchParams = SearchParams(<<"a">>, FALSE, TRUE, w)
    /\ \E t \in Texts :
          \E m \in MatchesOf(t) :
             frame = [NoFrame EXCEPT !.text = t, !.m = m]
    /\ op = "idle"
    /\ searchRange = Range(1, 1, 1, 1)
    /\ searchStart = Position(1, 1)
    /\ captureMatches = FALSE
    /\ limitResultCount = 0
    /\ result = << >>
    /\ scans = << >>

\* The test is applied; result holds what the two edges and the test return.
IsValidMatchCall ==
    /\ op = "idle"
    /\ op' = "isValidMatch"
    /\ result' = <<[left |-> leftIsWordBounday(searchParams.wordSeparators,
                                 frame.text, Len(frame.text),
                                 frame.m.index, frame.m.len),
                    right |-> rightIsWordBounday(searchParams.wordSeparators,
                                  frame.text, Len(frame.text),
                                  frame.m.index, frame.m.len),
                    valid |-> isValidMatch(searchParams.wordSeparators,
                                  frame.text, Len(frame.text),
                                  frame.m.index, frame.m.len)]>>
    /\ UNCHANGED <<model, searchParams, searchRange, searchStart, captureMatches,
                   limitResultCount, scans>>
    /\ UNCHANGED locals

BoundaryNext == IsValidMatchCall

BoundarySpec == BoundaryInit /\ [][BoundaryNext]_vars

\* ------------------------------------------------------------------------
\* C19: word-boundary test edge cases, with a classifier configured: a
\* non-empty match whose first and last characters are both non-Regular
\* (separator or whitespace) is accepted whatever the adjacent characters
\* are; a zero-length match at offset 0 satisfies the left edge and a
\* zero-length match at the end of the text satisfies the right edge.
\* ------------------------------------------------------------------------
\* The class of the character at a 0-based offset of the text of the test.
ClassAt(offset) ==
    WordCharacterClass(searchParams.wordSeparators, frame.text[offset + 1])

MatchOfSeparators ==
    /\ frame.m.len > 0
    /\ ClassAt(frame.m.index) # Regular
    /\ ClassAt(frame.m.index + frame.m.len - 1) # Regular

C19_BoundaryEdgeCases ==
    op = "isValidMatch" =>
        /\ MatchOfSeparators => result[1].valid
        /\ (frame.m.len = 0 /\ frame.m.index = 0) => result[1].left
        /\ (frame.m.len = 0 /\ frame.m.index = Len(frame.text)) => result[1].right

\* A separator between two Regular characters is accepted.
C19_Witness ==
    /\ op = "isValidMatch"
    /\ searchParams.wordSeparators = <<"-">>
    /\ frame.text = <<"a", "-", "a">>
    /\ frame.m.index = 1
    /\ frame.m.len = 1
    /\ result[1].valid

\* A zero-length match at offset 0 of a text that starts with a Regular
\* character satisfies the left edge and not the right one.
C19_EmptyMatchWitness ==
    /\ op = "isValidMatch"
    /\ searchParams.wordSeparators = <<"-">>
    /\ frame.text = <<"a", "a">>
    /\ frame.m.index = 0
    /\ frame.m.len = 0
    /\ result[1].left
    /\ ~result[1].right

\* ------------------------------------------------------------------------
\* C20: with a classifier configured, every match returned by findMatches
\* (for any searchRange, also one that starts or ends in the middle of a
\* line) and by findPreviousMatch (for any fromPosition) is word-bounded
\* with respect to the full content of its buffer line: the buffer character
\* just before the match and the match's first character are not both
\* Regular, and the match's last character and the buffer character just
\* after it are not both Regular.  Cutting the scanned text at a range edge
\* or at fromPosition does not by itself make an edge a boundary.
\* ------------------------------------------------------------------------
\* The character of the buffer at a column of a line is Regular (the end of
\* a line is its line break).
IsRegularAt(lineNumber, column) ==
    LET line == getLineContent(model, lineNumber) IN
    /\ column >= 1
    /\ WordCharacterClass(searchParams.wordSeparators,
                          IF column <= Len(line) THEN line[column] ELSE LineFeed)
          = Regular

\* There is a character of the line just before, just after, a column.
HasCharBefore(column) == column > 1
HasCharAt(lineNumber, column) == column <= Len(getLineContent(model, lineNumber))

\* The position of the last character of a non-empty match.
LastCharOf(r) ==
    IF r.endColumn > 1 THEN Position(r.endLineNumber, r.endColumn - 1)
    ELSE Position(r.endLineNumber - 1, getLineMaxColumn(model, r.endLineNumber - 1))

WordBoundedInItsLine(r) ==
    /\ ~(/\ HasCharBefore(r.startColumn)
         /\ IsRegularAt(r.startLineNumber, r.startColumn - 1)
         /\ IsRegularAt(r.startLineNumber, r.startColumn))
    /\ ~(/\ HasCharAt(r.endLineNumber, r.endColumn)
         /\ IsRegularAt(r.endLineNumber, r.endColumn)
         /\ IsRegularAt(LastCharOf(r).lineNumber, LastCharOf(r).column))

C20_WordBoundedInFullLine ==
    (op \in {"findMatches", "findPreviousMatch"} /\ HasClassifier) =>
        \A k \in 1..Len(result) :
            getStartPosition(result[k].range) # getEndPosition(result[k].range)
                => WordBoundedInItsLine(result[k].range)

\* ------------------------------------------------------------------------
\* C21: a zero-width match does not end the scan of a text: for a regex that
\* can match the empty string, findMatches (its limit not reached) still
\* reports every later non-empty match of the same line, or of the same
\* joined multiline text.  For every zero-width match Z it returns and every
\* offset of the scanned text, at or after Z, where the matcher accepts a
\* non-empty match, findMatches returns a non-empty match that starts at or
\* after Z and contains that offset.
\* ------------------------------------------------------------------------
IsZeroWidth(match) == StartOf(match) = EndOf(match)

\* The matcher, started at offset j of text, accepts a non-empty match there.
AcceptsNonEmptyAt(text, j) ==
    LET n == Searcher_next(Searcher_reset(CallSearcher, j), text)
    IN n.m.found /\ n.m.index = j /\ n.m.len > 0

\* The matches of the result that lie in the scanned range scan.
ReportedIn(scan) ==
    {k \in DOMAIN result : RangeIsInside(result[k].range, scan)}

LaterMatchesReported(scan) ==
    LET text == getValueInRange(model, scan, LF) IN
    \A z \in ReportedIn(scan) :
        IsZeroWidth(result[z]) =>
            \A j \in TextOffsetIn(scan, StartOf(result[z]))..(Len(text) - 1) :
                AcceptsNonEmptyAt(text, j) =>
                    \E k \in ReportedIn(scan) :
                        /\ ~IsZeroWidth(result[k])
                        /\ TextOffsetIn(scan, StartOf(result[z]))
                              <= TextOffsetIn(scan, StartOf(result[k]))
                        /\ TextOffsetIn(scan, StartOf(result[k])) <= j
                        /\ j < TextOffsetIn(scan, EndOf(result[k]))

C21_ZeroWidthMatchDoesNotEndScan ==
    (op = "findMatches" /\ Compiled.ok /\ Len(result) < limitResultCount) =>
        \A s \in DOMAIN scans : LaterMatchesReported(scans[s])

\* ------------------------------------------------------------------------
\* C22: for a non-multiline query and every fromPosition, the match returned
\* by findNextMatch is an element of the sequence returned by findMatches
\* over the whole buffer with a limit that is never reached, also for
\* patterns whose occurrences overlap when the scan starts in the middle of
\* a line.
\* ------------------------------------------------------------------------
AllMatches == Unlimited(WholeBuffer(model))

C22_NextIsAmongAllMatches ==
    (op = "findNextMatch" /\ IsLineByLine /\ result # << >>) =>
        result[1] \in SeqRange(AllMatches)

\* findNextMatch has found its match in the scan of the line of
\* fromPosition that starts at fromPosition, in the middle of the line.
FoundFromMidLine ==
    /\ searchStart.column > 1
    /\ result[1].range.startLineNumber = searchStart.lineNumber
    /\ PositionLE(searchStart, StartOf(result[1]))

\* As amended: the match is an element of that sequence unless it is found
\* by the scan that starts at fromPosition in the middle of a line; that
\* scan does not see the matches that begin before fromPosition.
C22_NextIsAmongAllMatchesUnlessMidLine ==
    (op = "findNextMatch" /\ IsLineByLine /\ result # << >> /\ ~FoundFromMidLine) =>
        result[1] \in SeqRange(AllMatches)

\* From the middle of a line, findNextMatch has wrapped to a match of an
\* earlier line that is not the first match of the buffer's list.
C22_Witness ==
    /\ op = "findNextMatch"
    /\ IsLineByLine
    /\ searchStart.column > 1
    /\ searchStart.lineNumber = 3
    /\ result # << >>
    /\ result[1].range.startLineNumber = 2
    /\ Len(AllMatches) >= 1
    /\ result[1] \in SeqRange(AllMatches)

\* ------------------------------------------------------------------------
\* C23: for every query, buffer and fromPosition, findNextMatch returns null
\* iff findPreviousMatch returns null iff findMatches over the whole buffer
\* (limit >= 1) returns an empty sequence: a directional query finds a match
\* whenever the buffer has one, wherever the cursor is.
\* ------------------------------------------------------------------------
NextIsNull ==
    findNextMatch(model, searchParams, searchStart, captureMatches).result = << >>

PreviousIsNull ==
    findPreviousMatch(model, searchParams, searchStart, captureMatches).result = << >>

BufferHasNoMatch ==
    findMatches(model, searchParams, WholeBuffer(model), captureMatches,
                LIMIT_FIND_COUNT).result = << >>

C23_DirectionalFindsIffBufferHasMatch ==
    op \in {"findNextMatch", "findPreviousMatch"} =>
        /\ NextIsNull <=> BufferHasNoMatch
        /\ PreviousIsNull <=> BufferHasNoMatch

\* ------------------------------------------------------------------------
\* C24: in the multiline strategy with a classifier whose separator set does
\* not contain the line feed, a line break next to a match acts as a word
\* boundary: in the joined text findMatches scans, an occurrence of the
\* regex that begins at column 1 of a line passes the left-edge test and an
\* occurrence that ends at the last column of a line passes the right-edge
\* test, whatever its first and last characters are.
\* ------------------------------------------------------------------------
\* The text the multiline strategy scans for the range of the call.
JoinedText == getValueInRange(model, searchRange, LF)

\* Offset j of the joined text is the start of a line, the end of a line.
IsLineStart(text, j) == j = 0 \/ text[j] = LineFeed
IsLineEnd(text, j) == j = Len(text) \/ text[j + 1] = LineFeed

\* The occurrences of the regex in the joined text: start and end offset.
OccurrencesIn(text) ==
    {je \in (0..Len(text)) \X (0..Len(text)) :
        MatchHere(Compiled.regex, 1, text, je[1]) = je[2]}

C24_LineBreakIsWordBoundary ==
    (/\ op = "findMatches"
     /\ IsMultiline
     /\ HasClassifier
     /\ LineFeed \notin SeqRange(searchParams.wordSeparators)) =>
        \A je \in OccurrencesIn(JoinedText) :
            /\ IsLineStart(JoinedText, je[1]) =>
                  leftIsWordBounday(searchParams.wordSeparators, JoinedText,
                                    Len(JoinedText), je[1], je[2] - je[1])
            /\ IsLineEnd(JoinedText, je[2]) =>
                  rightIsWordBounday(searchParams.wordSeparators, JoinedText,
                                     Len(JoinedText), je[1], je[2] - je[1])

\* ------------------------------------------------------------------------
\* C25: the sequence returned by findMatches is strictly ascending in
\* document order and non-overlapping: for consecutive matches A then B,
\* A.start < B.start and A.end <= B.start, in both strategies and for every
\* pattern including ones that match the empty string.
\* ------------------------------------------------------------------------
C25_AscendingNonOverlapping ==
    op = "findMatches" =>
        \A k \in 1..(Len(result) - 1) :
            /\ PositionLT(StartOf(result[k]), StartOf(result[k + 1]))
            /\ PositionLE(EndOf(result[k]), StartOf(result[k + 1]))

\* A non-empty match followed by a zero-width match at its end.
C25_Witness ==
    /\ op = "findMatches"
    /\ Len(result) = 2
    /\ ~IsZeroWidth(result[1])
    /\ IsZeroWidth(result[2])
    /\ StartOf(result[2]) = EndOf(result[1])

\* Two matches of a multiline query's joined text, the first with the line
\* break at its end.
C25_MultilineWitness ==
    /\ op = "findMatches"
    /\ IsMultiline
    /\ Len(result) = 2
    /\ result[1].range.endLineNumber = 2
    /\ result[1].range.endColumn = 1

====
